---------------------------- MODULE Spec2Model ----------------------------
(***************************************************************************)
(* Connectivity reconciliation core of My-Portable-Apps:                   *)
(*   PsiphonMonitor   (core/services/psiphon_monitor.py)                   *)
(*   NetworkManager   (core/services/network_manager.py)                   *)
(*   MainController   (core/controller/main_controller.py)                 *)
(*   TimedQuestionDialog / MessageBox (core/utils/message_box.py)          *)
(*                                                                         *)
(* Python values: None is the string "None"; a Python bool is a TLA+       *)
(* BOOLEAN, except where a variable ranges over {None, True, False}, which *)
(* is then one of "None", "True", "False".                                 *)
(***************************************************************************)
EXTENDS Integers, Sequences, FiniteSets, TLC

(***************************************************************************)
(* Bounds of the model.                                                    *)
(***************************************************************************)
\* longest process table the environment presents to psutil
MaxProcs == 2

None == "None"

(***************************************************************************)
(* The operating system's process table, as psutil.process_iter(['name'])  *)
(* and proc.net_connections() present it.  A process has a name (None when *)
(* psutil is denied access to it) and, for the tunnel core, the outcome of *)
(* net_connections(): an ESTABLISHED connection, none, or AccessDenied.    *)
(***************************************************************************)
ProcNames == {"psiphon3.exe", "Psiphon3.exe", "psiphon-tunnel-core.exe", "explorer.exe", None}

ConnStates == {"ESTABLISHED", "LISTEN", "AccessDenied"}

\* only the tunnel core's connections are ever read
ProcKinds ==
    {[name |-> n, conn |-> "LISTEN"] : n \in ProcNames \ {"psiphon-tunnel-core.exe"}}
    \cup {[name |-> "psiphon-tunnel-core.exe", conn |-> c] : c \in ConnStates}

ProcTables == UNION {[1..n -> ProcKinds] : n \in 0..MaxProcs}

\* str.lower() on the process names of the model
Lower(n) == IF n = "Psiphon3.exe" THEN "psiphon3.exe" ELSE n

\* 'psiphon3.exe' in s, for s a lower-cased process name of the model
HasUiName(s) == s = "psiphon3.exe"

\* 'psiphon-tunnel-core.exe' in s
HasTunnelName(s) == s = "psiphon-tunnel-core.exe"

VARIABLES
    procs,                  \* OS process table (environment)
    monitoring,             \* PsiphonMonitor.monitoring
    mpc,                    \* position of the monitor thread
    last_connected_status,  \* local of run(): "None", "True", "False"
    sample,                 \* locals of one loop iteration
    lastEmit,               \* arguments of the latest status_updated.emit, or <<>>
    notified,               \* number of state-change log lines of the current sample
    prevSample,             \* established value of the previous sample of this run
    loops,                  \* number of run() loops that are active
    emitsInPeriod,          \* status_updated emissions since the last sleep
    cpc,                    \* position of the GUI thread in the monitor's API
    stopped,                \* stop() has returned and start() was not called since
    redundantStart,         \* a start() call found the thread of this run running
    \* ---- environment of NetworkManager
    osSsid,                 \* SSID the machine is associated with, or NoSsid
    inRange,                \* SSIDs a scan finds
    osProfiles,             \* SSIDs the OS holds a WLAN profile for
    internetUp,             \* the connectivity-check URL answers 204
    store,                  \* rows of the profiles table, in SELECT order
    xmlFiles,               \* SSIDs whose profile file <ssid>.xml exists on disk
    \* ---- NetworkManager
    current_ssid,
    current_password,
    available_networks,
    nmCall,                 \* the latest observed call of a NetworkManager method
    \* ---- MainController
    stack,                  \* handlers active on the GUI thread, innermost last
    vpnUseCheckbox,         \* ui.vpnUseCheckbox.isChecked()
    intervalSpinBox,        \* ui.intervalSpinBox.value()
    spinReadOnly,           \* ui.intervalSpinBox.isReadOnly()
    autoButtonEnabled,      \* ui.autoConfigButton.isEnabled()
    stopButtonEnabled,      \* ui.stopAutoConfigButton.isEnabled()
    timerActive,            \* autoconfig_timer.isActive()
    timerInterval,          \* autoconfig_timer.interval(), ms
    autoConfig,             \* the configuration auto mode was started with
    watch,                  \* what is observed of the handler invocation under watch
    dlg,                    \* the TimedQuestionDialog taken on its own
    hcall                   \* what is observed of a handler of the profile store

monVars == <<monitoring, mpc, last_connected_status, sample, lastEmit, notified,
             prevSample, loops, emitsInPeriod, cpc, stopped, redundantStart>>

envVars == <<osSsid, inRange, osProfiles, internetUp, store, xmlFiles>>

nmVars == <<current_ssid, current_password, available_networks, nmCall>>

ctlVars == <<stack, vpnUseCheckbox, intervalSpinBox, spinReadOnly, autoButtonEnabled,
             stopButtonEnabled, timerActive, timerInterval, autoConfig, watch, dlg,
             hcall>>

engVars == <<envVars, nmVars, ctlVars>>

vars == <<procs, monVars, engVars>>

PyBool(b) == IF b THEN "True" ELSE "False"

NoSample == [ui_running |-> FALSE, tunnel_running |-> FALSE,
             tunnel_active |-> FALSE, psiphon_connected |-> FALSE]

(***************************************************************************)
(* PsiphonMonitor._check_psiphon_processes: one pass over the table.       *)
(* proc.info.get('name', '') is None for a process psutil may not read, so *)
(* name.lower() raises and the except branch returns (False, False).       *)
(***************************************************************************)
RECURSIVE ScanProcesses(_, _, _, _)
ScanProcesses(tbl, i, ui, tun) ==
    IF i > Len(tbl) THEN <<ui, tun>>
    ELSE IF tbl[i].name = None THEN <<FALSE, FALSE>>
    ELSE IF HasUiName(Lower(tbl[i].name)) THEN ScanProcesses(tbl, i + 1, TRUE, tun)
    ELSE IF HasTunnelName(Lower(tbl[i].name)) THEN ScanProcesses(tbl, i + 1, ui, TRUE)
    ELSE ScanProcesses(tbl, i + 1, ui, tun)

check_psiphon_processes(tbl, iterFails) ==
    IF iterFails THEN <<FALSE, FALSE>> ELSE ScanProcesses(tbl, 1, FALSE, FALSE)

(***************************************************************************)
(* PsiphonMonitor._check_tunnel_status: True at the first tunnel-core      *)
(* process with an ESTABLISHED connection; AccessDenied/NoSuchProcess on a *)
(* process is skipped; any other exception gives False.                    *)
(***************************************************************************)
RECURSIVE ScanTunnel(_, _)
ScanTunnel(tbl, i) ==
    IF i > Len(tbl) THEN FALSE
    ELSE IF tbl[i].name # None /\ HasTunnelName(Lower(tbl[i].name))
         THEN IF tbl[i].conn = "ESTABLISHED" THEN TRUE ELSE ScanTunnel(tbl, i + 1)
    ELSE ScanTunnel(tbl, i + 1)

\* _check_tunnel_status that takes a failed lookup for an active tunnel
check_tunnel_status_ErrorIsActive(tbl, iterFails) ==
    IF iterFails THEN TRUE ELSE ScanTunnel(tbl, 1)

check_tunnel_status(tbl, iterFails) ==
    IF iterFails THEN FALSE ELSE ScanTunnel(tbl, 1)

(***************************************************************************)
(* The monitor thread: PsiphonMonitor.run.                                 *)
(*   mpc: "none" no thread, "entry" started and before line 68, "while"    *)
(*   line 73, "check2" line 77, "compare" lines 80-90, "emit" line 93,     *)
(*   "sleep" line 104, "finished" run() has returned.                      *)
(***************************************************************************)
MonEntry ==
    /\ mpc = "entry"
    /\ monitoring' = TRUE
    /\ last_connected_status' = None
    /\ prevSample' = None
    /\ mpc' = "while"
    /\ UNCHANGED <<engVars, procs, sample, lastEmit, notified, loops, emitsInPeriod, cpc, stopped, redundantStart>>

MonWhile ==
    /\ mpc = "while"
    /\ IF monitoring
       THEN \E iterFails \in BOOLEAN :
              LET r == check_psiphon_processes(procs, iterFails)
              IN  /\ sample' = [NoSample EXCEPT !.ui_running = r[1], !.tunnel_running = r[2]]
                  /\ mpc' = "check2"
                  /\ notified' = 0
                  /\ UNCHANGED loops
       ELSE /\ mpc' = "finished"
            /\ loops' = loops - 1
            /\ UNCHANGED <<sample, notified>>
    /\ UNCHANGED <<engVars, procs, monitoring, last_connected_status, lastEmit, prevSample,
                   emitsInPeriod, cpc, stopped, redundantStart>>

MonCheckTunnel ==
    /\ mpc = "check2"
    /\ \E iterFails \in BOOLEAN :
         sample' = [sample EXCEPT !.tunnel_active = check_tunnel_status(procs, iterFails)]
    /\ mpc' = "compare"
    /\ UNCHANGED <<engVars, procs, monitoring, last_connected_status, lastEmit, notified, prevSample,
                   loops, emitsInPeriod, cpc, stopped, redundantStart>>

\* lines 80-98 with the emit of lines 93-98 moved before the logging of
\* lines 83-90
MonCompare_EmitFirst ==
    /\ mpc = "compare"
    /\ LET c == sample.ui_running /\ sample.tunnel_running /\ sample.tunnel_active
       IN  /\ sample' = [sample EXCEPT !.psiphon_connected = c]
           /\ lastEmit' = <<sample.ui_running, sample.tunnel_running, sample.tunnel_active, c>>
           /\ emitsInPeriod' = emitsInPeriod + 1
           /\ IF PyBool(c) # last_connected_status
              THEN /\ notified' = notified + 1
                   /\ last_connected_status' = PyBool(c)
              ELSE UNCHANGED <<notified, last_connected_status>>
           /\ prevSample' = PyBool(c)
    /\ mpc' = "sleep"
    /\ UNCHANGED <<engVars, procs, monitoring, loops, cpc, stopped, redundantStart>>

\* lines 80-90 with line 90 left out: last_connected_status is never updated
MonCompare_NoUpdate ==
    /\ mpc = "compare"
    /\ LET c == sample.ui_running /\ sample.tunnel_running /\ sample.tunnel_active
       IN  /\ sample' = [sample EXCEPT !.psiphon_connected = c]
           /\ notified' = IF PyBool(c) # last_connected_status THEN notified + 1 ELSE notified
           /\ UNCHANGED last_connected_status
    /\ mpc' = "emit"
    /\ UNCHANGED <<engVars, procs, monitoring, lastEmit, prevSample, loops, emitsInPeriod, cpc, stopped, redundantStart>>

MonCompare ==
    /\ mpc = "compare"
    /\ LET c == sample.ui_running /\ sample.tunnel_running /\ sample.tunnel_active
       IN  /\ sample' = [sample EXCEPT !.psiphon_connected = c]
           /\ IF PyBool(c) # last_connected_status
              THEN /\ notified' = notified + 1      \* exactly one of the three log lines
                   /\ last_connected_status' = PyBool(c)
              ELSE UNCHANGED <<notified, last_connected_status>>
    /\ mpc' = "emit"
    /\ UNCHANGED <<engVars, procs, monitoring, lastEmit, prevSample, loops, emitsInPeriod, cpc, stopped, redundantStart>>

MonEmit ==
    /\ mpc = "emit"
    /\ lastEmit' = <<sample.ui_running, sample.tunnel_running, sample.tunnel_active,
                     sample.psiphon_connected>>
    /\ emitsInPeriod' = emitsInPeriod + 1
    /\ prevSample' = PyBool(sample.psiphon_connected)
    /\ mpc' = "sleep"
    /\ UNCHANGED <<engVars, procs, monitoring, last_connected_status, sample, notified, loops,
                   cpc, stopped, redundantStart>>

MonSleep ==
    /\ mpc = "sleep"
    /\ emitsInPeriod' = 0
    /\ mpc' = "while"
    /\ UNCHANGED <<engVars, procs, monitoring, last_connected_status, sample, lastEmit, notified,
                   prevSample, loops, cpc, stopped, redundantStart>>

ThreadRunning == mpc \notin {"none", "finished"}

(***************************************************************************)
(* The GUI thread's calls.  QThread.start() does nothing while the thread  *)
(* is running; QThread.wait() returns once run() has returned, or at once  *)
(* when the thread was never started.                                      *)
(***************************************************************************)
\* start() that launches run() again although the thread is running
monitor_start_always ==
    /\ mpc' = "entry"
    /\ loops' = loops + 1
    /\ redundantStart' = ThreadRunning
    /\ stopped' = FALSE
    /\ UNCHANGED <<monitoring, last_connected_status, sample, lastEmit, notified,
                   prevSample, emitsInPeriod, cpc>>

\* self.psiphon_monitor.start(), as called by the controller
monitor_start ==
    /\ IF ThreadRunning
       THEN /\ redundantStart' = TRUE
            /\ UNCHANGED <<mpc, loops>>
       ELSE /\ mpc' = "entry"
            /\ loops' = loops + 1
            /\ redundantStart' = FALSE
    /\ stopped' = FALSE
    /\ UNCHANGED <<monitoring, last_connected_status, sample, lastEmit, notified,
                   prevSample, emitsInPeriod, cpc>>

\* the GUI thread calls start(): MainController.__init__ line 74 and
\* update_status_labels line 165
MonitorStart ==
    /\ cpc = "idle"
    /\ monitor_start
    /\ UNCHANGED <<engVars, procs>>

\* stop(), lines 108-109
MonitorStopSignal ==
    /\ cpc = "idle"
    /\ monitoring' = FALSE
    /\ cpc' = "wait"
    /\ UNCHANGED <<engVars, procs, mpc, last_connected_status, sample, lastEmit, notified,
                   prevSample, loops, emitsInPeriod, stopped, redundantStart>>

\* stop() without the join of line 110
MonitorStopWait_NoJoin ==
    /\ cpc = "wait"
    /\ cpc' = "idle"
    /\ stopped' = TRUE
    /\ UNCHANGED <<engVars, procs, monitoring, mpc, last_connected_status, sample, lastEmit,
                   notified, prevSample, loops, emitsInPeriod, redundantStart>>

\* stop(), line 110: self.wait()
MonitorStopWait ==
    /\ cpc = "wait"
    /\ ~ThreadRunning
    /\ cpc' = "idle"
    /\ stopped' = TRUE
    /\ UNCHANGED <<engVars, procs, monitoring, mpc, last_connected_status, sample, lastEmit,
                   notified, prevSample, loops, emitsInPeriod, redundantStart>>

\* the environment starts, ends or changes processes at any moment
RemoveAt(tbl, i) == [j \in 1..(Len(tbl) - 1) |-> IF j < i THEN tbl[j] ELSE tbl[j + 1]]

\* a process starts
ProcStarts ==
    /\ Len(procs) < MaxProcs
    /\ \E k \in ProcKinds : procs' = Append(procs, k)
    /\ UNCHANGED <<engVars, monVars>>

\* a process ends
ProcExits ==
    /\ \E i \in 1..Len(procs) : procs' = RemoveAt(procs, i)
    /\ UNCHANGED <<engVars, monVars>>

\* the tunnel core opens or loses its connection
ConnChanges ==
    /\ \E i \in 1..Len(procs) : \E c \in ConnStates :
         /\ procs[i].name = "psiphon-tunnel-core.exe"
         /\ c # procs[i].conn
         /\ procs' = [procs EXCEPT ![i].conn = c]
    /\ UNCHANGED <<engVars, monVars>>

(***************************************************************************)
(* NetworkManager (core/services/network_manager.py).  Each operation is   *)
(* one step of the GUI thread (its time.sleep calls block that thread);    *)
(* the outcome of every OS command it runs is chosen by the environment.   *)
(***************************************************************************)
NoSsid == ""

SSIDs == {"Home", "HomeNet"}

Passwords == {"pw1", "pw2"}

\* Python's "a in b" on the SSIDs of the model
Substr(a, b) == a = b \/ (a = "Home" /\ b = "HomeNet")

\* Python's "not x" for a str-or-None
Falsy(x) == x = None \/ x = ""

\* self.current_ssid in stdout of "netsh wlan show interfaces"
InterfacesShow(ssid, assoc) == assoc # NoSsid /\ Substr(ssid, assoc)

\* self.current_ssid in stdout of "netsh wlan show profiles"
ProfilesShow(ssid, profiles) == \E p \in profiles : Substr(ssid, p)

\* get_wifi_status() without the test of lines 142-144
get_wifi_status_NoTargetTest(ssid, assoc, cmdFails) ==
    IF cmdFails THEN <<FALSE, "Error">>
    ELSE IF InterfacesShow(ssid, assoc) THEN <<TRUE, "Connected">>
    ELSE <<FALSE, "Not Connected">>

get_wifi_status(ssid, assoc, cmdFails) ==
    IF Falsy(ssid) THEN <<FALSE, "Wi-Fi not selected">>
    ELSE IF cmdFails THEN <<FALSE, "Error">>
    ELSE IF InterfacesShow(ssid, assoc) THEN <<TRUE, "Connected">>
    ELSE <<FALSE, "Not Connected">>

\* get_current_wifi(): the SSID of the first SSID line of netsh wlan show
\* interfaces, None when there is none or the command fails
get_current_wifi(assoc, cmdFails) ==
    IF cmdFails THEN None ELSE IF assoc = NoSsid THEN None ELSE assoc

\* get_available_wifi(): the value it leaves in available_networks
get_available_wifi(found, cmdFails) == IF cmdFails THEN {} ELSE found

\* what the query of one profile's key can give
KeyOutcomes == {"ok", "nokey", "raises"}

\* get_wifi_passwords(): the (ssid, password) pairs it returns, as a set.
\* listing is what netsh wlan show profiles did: "ok", "nonzero" or an
\* exception; the query of the key of profile bad ended as item, the
\* others gave the key.
get_wifi_passwords(profiles, listing, bad, item) ==
    IF listing # "ok" THEN {}
    ELSE {<<p, IF p # bad \/ item = "ok" THEN "pw1"
               ELSE IF item = "nokey" THEN "Not Available"
               ELSE "Error">> : p \in profiles}

\* what requests.get can give: a status code, or an exception
ProbeOutcomes(up) == IF up THEN {"204"} ELSE {"200", "Timeout", "ConnectionError"}

\* get_internet_status() that takes any response for success
get_internet_status_AnyResponse(outcome) == outcome \notin {"Timeout", "ConnectionError"}

get_internet_status(outcome) == outcome = "204"

IsUiProc(p) == p.name # None /\ HasUiName(Lower(p.name))

\* "psiphon3.exe" in tasklist's stdout.lower()
is_psiphon_running(tbl, cmdFails) ==
    IF cmdFails THEN FALSE ELSE \E i \in 1..Len(tbl) : IsUiProc(tbl[i])

\* the loop of lines 215-220 without its break: the last match wins
LastKnownFrom(profiles, avail, i) ==
    LET M == {k \in i..Len(profiles) : profiles[k][1] \in avail}
    IN  IF M = {} THEN 0 ELSE CHOOSE k \in M : \A j \in M : j <= k

\* connect_wifi's loop over known_profiles: the index of the first saved
\* profile whose SSID is in available_networks, 0 when there is none
RECURSIVE FirstKnownFrom(_, _, _)
FirstKnownFrom(profiles, avail, i) ==
    IF i > Len(profiles) THEN 0
    ELSE IF profiles[i][1] \in avail THEN i
    ELSE FirstKnownFrom(profiles, avail, i + 1)

\* what create_wifi_profile can meet: the file cannot be opened, netsh wlan
\* add profile fails, os.remove fails, or none of these
CreateOutcomes == {"ok", "open_fails", "import_fails", "remove_fails"}

\* create_wifi_profile() for the target ssid/pw on a machine holding the
\* profiles and the files given: its return value, the profiles and files
\* it leaves and the commands it issued
create_wifi_profile(ssid, pw, profiles, files, outcome) ==
    IF Falsy(ssid) \/ Falsy(pw)
    THEN [ret |-> FALSE, profiles |-> profiles, files |-> files, cmds |-> {}]
    ELSE IF outcome = "open_fails"
    THEN [ret |-> FALSE, profiles |-> profiles, files |-> files, cmds |-> {}]
    ELSE IF outcome = "import_fails"
    THEN [ret |-> FALSE, profiles |-> profiles, files |-> files \cup {ssid},
          cmds |-> {"add_profile"}]
    ELSE IF outcome = "remove_fails"
    THEN [ret |-> FALSE, profiles |-> profiles \cup {ssid}, files |-> files \cup {ssid},
          cmds |-> {"add_profile"}]
    ELSE [ret |-> TRUE, profiles |-> profiles \cup {ssid}, files |-> files \ {ssid},
          cmds |-> {"add_profile"}]

\* what netsh wlan connect can do: associate the machine, fail, or not
\* run at all (subprocess.run raises OSError)
ConnectOutcomes == {"joins", "fails", "raises"}

\* connect_wifi's result once the connect command has run: the status read
\* after the wait, whatever the command did
ConnectResult_FromCommand(cmd, verified) == cmd = "joins"

ConnectResult(cmd, verified) == verified

\* Python's exception classes: exc is an instance of class cls
IsA(exc, cls) ==
    \/ cls = exc
    \/ cls = "Exception"
    \/ cls = "OSError" /\ exc = "FileNotFoundError"
    \/ cls = "RequestException" /\ exc \in {"Timeout", "ConnectionError"}

\* what subprocess.run(..., check=True, text=True) can raise: a non-zero
\* exit, a program that cannot be started, output that cannot be decoded
CheckedRunFaults == {"CalledProcessError", "FileNotFoundError", "UnicodeDecodeError"}

\* the same without check=True
RunFaults == {"FileNotFoundError", "UnicodeDecodeError"}

\* the except clauses of a method that catch nothing but the class named
Handlers_OnlyNamed(op) ==
    IF op = "get_internet_status" THEN {"RequestException"}
    ELSE IF op = "start_psiphon" THEN {"FileNotFoundError"}
    ELSE IF op \in {"get_wifi_passwords", "disconnect_wifi", "stop_psiphon"} THEN {}
    ELSE {"CalledProcessError"}

\* the classes named by the except clauses around the commands of a method
Handlers(op) ==
    IF op = "get_internet_status" THEN {"RequestException", "Exception"}
    ELSE IF op = "start_psiphon" THEN {"FileNotFoundError", "Exception"}
    ELSE IF op \in {"get_wifi_passwords", "disconnect_wifi", "stop_psiphon"}
    THEN {"Exception"}
    ELSE {"CalledProcessError", "Exception"}

\* what becomes of exc raised by a command of method op: "caught" by one of
\* its except clauses, or "escaped" to its caller; "none" when nothing was
\* raised
Thrown(op, exc) ==
    IF exc = "none" THEN "none"
    ELSE IF \E cls \in Handlers(op) : IsA(exc, cls) THEN "caught"
    ELSE "escaped"

\* what the except clauses of a method return (get_available_wifi: what they
\* leave in available_networks)
SafeDefault(op) ==
    IF op \in {"get_wifi_passwords", "get_available_wifi"} THEN {}
    ELSE IF op = "get_current_wifi" THEN None
    ELSE IF op = "get_wifi_status" THEN <<FALSE, "Error">>
    ELSE FALSE

\* no call of a NetworkManager method has been observed
NoCall == [op |-> "none", ret |-> FALSE, cmds |-> {}, ssid |-> None, password |-> None,
           assoc |-> NoSsid, running |-> FALSE, created |-> "none", connect |-> "none",
           verify |-> "none", fault |-> "none", outcome |-> "none"]

\* The record of a call of method op that returned r after issuing the OS
\* commands c: its result, its commands and the state it was made in (the
\* target, the network the machine was associated with, whether the VPN
\* client was running).
Call(op, r, c) ==
    [NoCall EXCEPT !.op = op, !.ret = r, !.cmds = c, !.ssid = current_ssid,
                   !.password = current_password, !.assoc = osSsid,
                   !.running = is_psiphon_running(procs, FALSE)]

\* the end of a call; an observed call is left in nmCall
Issue(logged, op, r, c) ==
    IF logged THEN nmCall' = Call(op, r, c) ELSE UNCHANGED nmCall

\* the end of a call in which a command of the method raised exc
IssueFault(logged, op, r, c, exc) ==
    IF logged THEN nmCall' = [Call(op, r, c) EXCEPT !.fault = Thrown(op, exc)]
    ELSE UNCHANGED nmCall

\* connect_wifi() returning r.  create_wifi_profile's result is not looked
\* at: the connect command is issued whatever it returned.  The commands:
\* "scan" netsh wlan show networks, "add_profile" netsh wlan add profile,
\* "connect" netsh wlan connect.  An observed call also leaves what
\* create_wifi_profile returned, what the connect command did and what the
\* status query after it reported.
connect_wifi_call(r, logged) ==
    \E statusFails \in BOOLEAN :
      IF get_wifi_status(current_ssid, osSsid, statusFails)[1]
      THEN /\ r = TRUE
           /\ Issue(logged, "connect_wifi", r, {})
           /\ UNCHANGED <<current_ssid, current_password, available_networks, osSsid,
                          osProfiles, xmlFiles>>
      ELSE \E scanFails \in (IF Falsy(current_ssid) \/ Falsy(current_password)
                              THEN BOOLEAN ELSE {FALSE}) :
        LET auto == Falsy(current_ssid) \/ Falsy(current_password)
            avail == get_available_wifi(inRange, scanFails)
            k == FirstKnownFrom(store, avail, 1)
            ssid == IF auto /\ k > 0 THEN store[k][1] ELSE current_ssid
            pw == IF auto /\ k > 0 THEN store[k][2] ELSE current_password
            scan == IF auto THEN {"scan"} ELSE {}
        IN  /\ available_networks' = (IF auto THEN avail ELSE available_networks)
            /\ current_ssid' = ssid
            /\ current_password' = pw
            /\ IF Falsy(ssid)
               THEN /\ r = FALSE
                    /\ Issue(logged, "connect_wifi", r, scan)
                    /\ UNCHANGED <<osSsid, osProfiles, xmlFiles>>
               ELSE \E listExc \in {"none"} \cup CheckedRunFaults :
                 IF listExc # "none"
                 THEN /\ r = FALSE
                      /\ IssueFault(logged, "connect_wifi", r, scan, listExc)
                      /\ UNCHANGED <<osSsid, osProfiles, xmlFiles>>
                 ELSE \E outcome \in (IF ProfilesShow(ssid, osProfiles) \/ Falsy(pw)
                                        THEN {"ok"} ELSE CreateOutcomes),
                         cmd \in ConnectOutcomes :
                      \E verifyFails \in (IF cmd = "raises" THEN {FALSE} ELSE BOOLEAN) :
                   LET made == IF ProfilesShow(ssid, osProfiles)
                               THEN [ret |-> TRUE, profiles |-> osProfiles,
                                     files |-> xmlFiles, cmds |-> {}]
                               ELSE create_wifi_profile(ssid, pw, osProfiles, xmlFiles,
                                                        outcome)
                       assoc == IF cmd = "joins" /\ ssid \in made.profiles /\ ssid \in inRange
                                THEN ssid ELSE osSsid
                       verified == get_wifi_status(ssid, assoc, verifyFails)[1]
                   IN  /\ osProfiles' = made.profiles
                       /\ xmlFiles' = made.files
                       /\ osSsid' = assoc
                       /\ r = (IF cmd = "raises" THEN FALSE ELSE ConnectResult(cmd, verified))
                       /\ IF logged
                          THEN nmCall' = [Call("connect_wifi", r,
                                               scan \cup made.cmds \cup {"connect"})
                                            EXCEPT !.created =
                                                     IF ProfilesShow(ssid, osProfiles)
                                                     THEN "none" ELSE PyBool(made.ret),
                                                   !.connect = cmd,
                                                   !.verify = IF cmd = "raises" THEN "none"
                                                              ELSE PyBool(verified),
                                                   !.fault =
                                                     IF cmd = "raises"
                                                     THEN Thrown("connect_wifi", "OSError")
                                                     ELSE "none"]
                          ELSE UNCHANGED nmCall

\* connect_wifi() as the controller calls it
connect_wifi(r) == connect_wifi_call(r, FALSE)

\* what a command run through the shell without check can do: take
\* effect, have no effect, or not run at all (subprocess.run raises OSError)
ShellOutcomes == {"done", "fails", "raises"}

\* disconnect_wifi() that issues netsh wlan disconnect without the test of
\* lines 269-272
disconnect_wifi_always(r, logged) ==
    \E cmd \in ShellOutcomes :
      \E verifyFails \in (IF cmd = "raises" THEN {FALSE} ELSE BOOLEAN) :
        LET assoc == IF cmd = "done" THEN NoSsid ELSE osSsid
        IN  /\ osSsid' = assoc
            /\ r = (IF cmd = "raises" THEN FALSE
                    ELSE ~get_wifi_status(current_ssid, assoc, verifyFails)[1])
            /\ IssueFault(logged, "disconnect_wifi", r, {"disconnect"},
                          IF cmd = "raises" THEN "OSError" ELSE "none")

\* disconnect_wifi() returning r; "disconnect" is netsh wlan disconnect
disconnect_wifi_call(r, logged) ==
    \E statusFails \in BOOLEAN :
      IF ~get_wifi_status(current_ssid, osSsid, statusFails)[1]
      THEN /\ r = TRUE
           /\ Issue(logged, "disconnect_wifi", r, {})
           /\ UNCHANGED osSsid
      ELSE \E cmd \in ShellOutcomes :
        \E verifyFails \in (IF cmd = "raises" THEN {FALSE} ELSE BOOLEAN) :
          LET assoc == IF cmd = "done" THEN NoSsid ELSE osSsid
          IN  /\ osSsid' = assoc
              /\ r = (IF cmd = "raises" THEN FALSE
                      ELSE ~get_wifi_status(current_ssid, assoc, verifyFails)[1])
              /\ IssueFault(logged, "disconnect_wifi", r, {"disconnect"},
                            IF cmd = "raises" THEN "OSError" ELSE "none")

\* disconnect_wifi() as the controller calls it
disconnect_wifi(r) == disconnect_wifi_call(r, FALSE)

UiProc == [name |-> "psiphon3.exe", conn |-> "LISTEN"]

\* what subprocess.Popen(psiphon_path) can do: start the client, start
\* nothing that lasts, or raise
PopenOutcomes == {"done", "fails", "FileNotFoundError", "OSError"}

\* start_psiphon() returning r; "launch" is the Popen of psiphon3.exe.  The
\* client is a single-instance program: launching it while it runs adds no
\* process.
start_psiphon_call(r, logged) ==
    \E firstFails \in BOOLEAN :
      IF is_psiphon_running(procs, firstFails)
      THEN /\ r = TRUE
           /\ Issue(logged, "start_psiphon", r, {})
           /\ UNCHANGED procs
      ELSE \E cmd \in PopenOutcomes :
        \E verifyFails \in (IF cmd \in {"done", "fails"} THEN BOOLEAN ELSE {FALSE}) :
          LET tbl == IF cmd = "done" /\ ~is_psiphon_running(procs, FALSE)
                     THEN Append(procs, UiProc) ELSE procs
          IN  /\ procs' = tbl
              /\ r = (IF cmd \in {"done", "fails"}
                      THEN is_psiphon_running(tbl, verifyFails) ELSE FALSE)
              /\ IssueFault(logged, "start_psiphon", r, {"launch"},
                            IF cmd \in {"done", "fails"} THEN "none" ELSE cmd)

\* start_psiphon() as the controller calls it
start_psiphon(r) == start_psiphon_call(r, FALSE)

\* stop_psiphon() returning r: "kill" is taskkill /IM psiphon3.exe /F, which
\* ends every process of that image name, or fails
stop_psiphon_call(r, logged) ==
    \E firstFails \in BOOLEAN :
      IF ~is_psiphon_running(procs, firstFails)
      THEN /\ r = TRUE
           /\ Issue(logged, "stop_psiphon", r, {})
           /\ UNCHANGED procs
      ELSE \E cmd \in ShellOutcomes :
        \E verifyFails \in (IF cmd = "raises" THEN {FALSE} ELSE BOOLEAN) :
          LET tbl == IF cmd = "done" THEN SelectSeq(procs, LAMBDA p : ~IsUiProc(p))
                     ELSE procs
          IN  /\ procs' = tbl
              /\ r = (IF cmd = "raises" THEN FALSE
                      ELSE ~is_psiphon_running(tbl, verifyFails))
              /\ IssueFault(logged, "stop_psiphon", r, {"kill"},
                            IF cmd = "raises" THEN "OSError" ELSE "none")

\* stop_psiphon() as the controller calls it
stop_psiphon(r) == stop_psiphon_call(r, FALSE)

(***************************************************************************)
(* MainController (core/controller/main_controller.py).  The GUI thread    *)
(* runs one handler at a time; a handler that opens a modal dialog         *)
(* (QMessageBox.exec, TimedQuestionDialog.exec) runs a nested event loop   *)
(* until the dialog closes, and that loop delivers timer events.  stack    *)
(* holds the handlers that have been entered and have not returned.        *)
(*   pc of a frame: "Lnnn" is line nnn of run_once_config, start_auto_     *)
(*   config or stop_auto_config, "Unnn" line nnn of update_status_labels,  *)
(*   "return" the handler returning.                                       *)
(* Of an invocation, errs lists the failures it has reported; vpn the VPN  *)
(* operations it has made ("stopped": its taskkill ended the client); late *)
(* says that it went on to a probe, a Wi-Fi disconnect or a VPN operation  *)
(* after reporting a fatal failure; refreshed that update_status_labels    *)
(* has run to its end; direct that lines 248 and 262 found Wi-Fi connected *)
(* and the internet reachable, so that the run repaired neither.  The      *)
(* locals psiphon_status and use_vpn are cleared after their last use,     *)
(* line 274.  The error dialogs that create_wifi_profile and start_psiphon *)
(* open inside a NetworkManager call are not separate positions.  sel is   *)
(* the (ssid, password) pair that handle_save_profile read from its inputs *)
(* or that handle_switch_wifi reads from its dialog.                       *)
(***************************************************************************)
\* nesting of handlers on the GUI thread
MaxDepth == 2

Intervals == {0, 20}

widgets == <<vpnUseCheckbox, intervalSpinBox, spinReadOnly, autoButtonEnabled,
             stopButtonEnabled, timerActive, timerInterval, autoConfig>>

NoConfig == [on |-> FALSE, use_vpn |-> FALSE, interval |-> 0]

\* nothing is observed
WatchOff == [on |-> FALSE, resets |-> 0, asked |-> [reset |-> "none", vpn |-> "none"],
             vpnSeen |-> "none", fixes |-> {}, vpnStep |-> "none"]

\* the start of an invocation under watch.  Of the invocation, resets
\* counts the Wi-Fi disconnect+reconnect cycles begun, asked holds the
\* answers to the two questions of update_status_labels, vpnSeen what line
\* 154 read, fixes the corrective actions update_status_labels performed,
\* vpnStep how lines 273-280 ended when use_vpn was checked: "running" with
\* the VPN client running, "warned" with the warning of line 280 shown,
\* "idle" with the client not running and no warning.
NoWatch == [WatchOff EXCEPT !.on = TRUE]

\* an observation w is kept only while watching
Observe(w) == watch' = IF watch.on THEN w ELSE watch

NewFrame(kind, pc, byTimer) ==
    [kind |-> kind, pc |-> pc, psiphon_status |-> FALSE, use_vpn |-> FALSE,
     timer |-> byTimer, errs |-> <<>>, vpn |-> {}, late |-> FALSE, refreshed |-> FALSE,
     direct |-> FALSE, sel |-> <<>>]

Top == stack[Len(stack)]

\* "wifi" and "internet" end the run; "vpn" is a warning
Fatal(errs) == \E i \in 1..Len(errs) : errs[i] \in {"wifi", "internet"}

\* the frame after a probe, a disconnect or a VPN operation
Acted(f) == [f EXCEPT !.late = Fatal(f.errs)]

At(pc) == stack # <<>> /\ Top.pc = pc

SetTop(f) == stack' = [stack EXCEPT ![Len(stack)] = f]

\* pcs at which the handler waits in a modal dialog's event loop
DialogPcs == {"L259", "L270", "L280", "U146", "U156", "L298", "L310", "L320"}

InEventLoop == IF stack = <<>> THEN TRUE ELSE Top.pc \in DialogPcs

\* line 260: return after the Wi-Fi error dialog
AfterWifiError_Continue == "L262"

AfterWifiError == "return"

\* line 271: return after the internet error dialog
AfterInternetError_Continue == "L273"

AfterInternetError == "return"

\* run_once_config, lines 247-252
RunOnceBegin ==
    /\ At("L248")
    /\ \E statusFails, tasklistFails \in BOOLEAN :
         LET ws == get_wifi_status(current_ssid, osSsid, statusFails)[1]
         IN  SetTop([Top EXCEPT !.psiphon_status = is_psiphon_running(procs, tasklistFails),
                                !.use_vpn = vpnUseCheckbox,
                                !.direct = ws,
                                !.pc = IF ws THEN "L262" ELSE "L254"])
    /\ UNCHANGED <<procs, monVars, envVars, nmVars, widgets, watch, dlg, hcall>>

\* lines 253-255
RunOnceConnect ==
    /\ At("L254")
    /\ \E r \in BOOLEAN : connect_wifi(r)
    /\ SetTop([Top EXCEPT !.pc = "L256"])
    /\ UNCHANGED <<procs, monVars, inRange, internetUp, store, widgets, watch, dlg, hcall>>

\* lines 256-259
RunOnceRecheck ==
    /\ At("L256")
    /\ \E statusFails \in BOOLEAN :
         IF get_wifi_status(current_ssid, osSsid, statusFails)[1]
         THEN SetTop([Top EXCEPT !.pc = "L262"])
         ELSE SetTop([Top EXCEPT !.pc = "L259", !.errs = Append(@, "wifi")])
    /\ UNCHANGED <<procs, monVars, envVars, nmVars, widgets, watch, dlg, hcall>>

\* the dialog of line 259 is closed; line 260
WifiErrorClosed ==
    /\ At("L259")
    /\ SetTop([Top EXCEPT !.pc = AfterWifiError])
    /\ UNCHANGED <<procs, monVars, envVars, nmVars, widgets, watch, dlg, hcall>>

\* lines 262-264
RunOnceProbe ==
    /\ At("L262")
    /\ \E o \in ProbeOutcomes(internetUp) :
         IF get_internet_status(o)
         THEN SetTop([Acted(Top) EXCEPT !.pc = "L273"])
         ELSE SetTop([Acted(Top) EXCEPT !.pc = "L265", !.direct = FALSE])
    /\ UNCHANGED <<procs, monVars, envVars, nmVars, widgets, watch, dlg, hcall>>

\* line 265
RunOnceDisconnect ==
    /\ At("L265")
    /\ \E r \in BOOLEAN : disconnect_wifi(r)
    /\ SetTop([Acted(Top) EXCEPT !.pc = "L266"])
    /\ Observe([watch EXCEPT !.resets = @ + 1])
    /\ UNCHANGED <<procs, monVars, inRange, osProfiles, internetUp, store, xmlFiles, nmVars,
                   widgets, dlg, hcall>>

\* line 266
RunOnceReconnect ==
    /\ At("L266")
    /\ \E r \in BOOLEAN : connect_wifi(r)
    /\ SetTop([Top EXCEPT !.pc = "L267"])
    /\ UNCHANGED <<procs, monVars, inRange, internetUp, store, widgets, watch, dlg, hcall>>

\* lines 267-270
RunOnceReprobe ==
    /\ At("L267")
    /\ \E o \in ProbeOutcomes(internetUp) :
         IF get_internet_status(o)
         THEN SetTop([Acted(Top) EXCEPT !.pc = "L273"])
         ELSE SetTop([Acted(Top) EXCEPT !.pc = "L270", !.errs = Append(@, "internet")])
    /\ UNCHANGED <<procs, monVars, envVars, nmVars, widgets, watch, dlg, hcall>>

\* the dialog of line 270 is closed; line 271
InternetErrorClosed ==
    /\ At("L270")
    /\ SetTop([Top EXCEPT !.pc = AfterInternetError])
    /\ UNCHANGED <<procs, monVars, envVars, nmVars, widgets, watch, dlg, hcall>>

\* the locals of lines 249-250 after their last use
Done(f) == [f EXCEPT !.psiphon_status = FALSE, !.use_vpn = FALSE]

\* lines 273-284: the start decision rests on psiphon_status of line 249
RunOnceVpn ==
    /\ At("L273")
    /\ IF Top.use_vpn
       THEN IF ~Top.psiphon_status
            THEN /\ \E r \in BOOLEAN : start_psiphon(r)
                 /\ SetTop([Done(Acted(Top)) EXCEPT !.pc = "L278", !.vpn = @ \cup {"start"}])
                 /\ UNCHANGED watch
            ELSE /\ SetTop([Done(Top) EXCEPT !.pc = "U138"])
                 /\ Observe([watch EXCEPT !.vpnStep = IF is_psiphon_running(procs, FALSE)
                                                       THEN "running" ELSE "idle"])
                 /\ UNCHANGED procs
       ELSE /\ \E tasklistFails \in BOOLEAN :
                 IF is_psiphon_running(procs, tasklistFails)
                 THEN \E r \in BOOLEAN :
                        /\ stop_psiphon(r)
                        /\ SetTop([Done(Acted(Top)) EXCEPT
                                     !.pc = "U138",
                                     !.vpn = @ \cup (IF is_psiphon_running(procs', FALSE)
                                                     THEN {"stop"} ELSE {"stop", "stopped"})])
                 ELSE /\ SetTop([Done(Top) EXCEPT !.pc = "U138"])
                      /\ UNCHANGED procs
            /\ UNCHANGED watch
    /\ UNCHANGED <<monVars, envVars, nmVars, widgets, dlg, hcall>>

\* lines 277-280
RunOnceVpnVerify ==
    /\ At("L278")
    /\ \E tasklistFails \in BOOLEAN :
         IF is_psiphon_running(procs, tasklistFails)
         THEN /\ SetTop([Top EXCEPT !.pc = "U138"])
              /\ Observe([watch EXCEPT !.vpnStep = "running"])
         ELSE /\ SetTop([Top EXCEPT !.pc = "L280", !.errs = Append(@, "vpn")])
              /\ Observe([watch EXCEPT !.vpnStep = "warned"])
    /\ UNCHANGED <<procs, monVars, envVars, nmVars, widgets, dlg, hcall>>

\* the warning of line 280 followed by a return, as after the two errors
VpnWarningClosed_Fatal ==
    /\ At("L280")
    /\ SetTop([Top EXCEPT !.pc = "return"])
    /\ UNCHANGED <<procs, monVars, envVars, nmVars, widgets, watch, dlg, hcall>>

\* the dialog of line 280 is closed; lines 286-287
VpnWarningClosed ==
    /\ At("L280")
    /\ SetTop([Top EXCEPT !.pc = "U138"])
    /\ UNCHANGED <<procs, monVars, envVars, nmVars, widgets, watch, dlg, hcall>>

\* update_status_labels, lines 138-148
StatusBegin ==
    /\ At("U138")
    /\ \E o \in ProbeOutcomes(internetUp) :
         SetTop([Acted(Top) EXCEPT !.pc = IF get_internet_status(o) THEN "U154" ELSE "U146"])
    /\ UNCHANGED <<procs, monVars, envVars, nmVars, widgets, watch, dlg, hcall>>

\* the question of line 146 with its answer not looked at: line 151 always
ResetQuestionAnswered_Always ==
    /\ At("U146")
    /\ \E reply \in {"Yes", "No"} :
         /\ SetTop([Top EXCEPT !.pc = "U151"])
         /\ Observe([watch EXCEPT !.asked.reset = reply])
    /\ UNCHANGED <<procs, monVars, envVars, nmVars, widgets, dlg, hcall>>

\* the timed question of line 146 ends: Yes by click or by timeout, No by click
ResetQuestionAnswered ==
    /\ At("U146")
    /\ \E reply \in {"Yes", "No"} :
         /\ SetTop([Top EXCEPT !.pc = IF reply = "Yes" THEN "U151" ELSE "U154"])
         /\ Observe([watch EXCEPT !.asked.reset = reply])
    /\ UNCHANGED <<procs, monVars, envVars, nmVars, widgets, dlg, hcall>>

\* line 151, reset_wifi line 325
StatusResetDisconnect ==
    /\ At("U151")
    /\ \E r \in BOOLEAN : disconnect_wifi(r)
    /\ SetTop([Acted(Top) EXCEPT !.pc = "U152"])
    /\ Observe([watch EXCEPT !.resets = @ + 1, !.fixes = @ \cup {"reset"}])
    /\ UNCHANGED <<procs, monVars, inRange, osProfiles, internetUp, store, xmlFiles, nmVars,
                   widgets, dlg, hcall>>

\* reset_wifi line 326, then line 152
StatusResetConnect ==
    /\ At("U152")
    /\ \E r \in BOOLEAN : connect_wifi(r)
    /\ SetTop([Top EXCEPT !.pc = "U154"])
    /\ UNCHANGED <<procs, monVars, inRange, internetUp, store, widgets, watch, dlg, hcall>>

\* lines 154-156
StatusVpnCheck ==
    /\ At("U154")
    /\ \E tasklistFails \in BOOLEAN :
         /\ SetTop([Top EXCEPT !.pc = IF is_psiphon_running(procs, tasklistFails)
                                      THEN "U163" ELSE "U156"])
         /\ Observe([watch EXCEPT
                       !.vpnSeen = PyBool(is_psiphon_running(procs, tasklistFails))])
    /\ UNCHANGED <<procs, monVars, envVars, nmVars, widgets, dlg, hcall>>

\* the timed question of line 156 ends; lines 157-161
VpnQuestionAnswered ==
    /\ At("U156")
    /\ \E reply \in {"Yes", "No"} :
         IF reply = "Yes"
         THEN /\ \E r \in BOOLEAN : start_psiphon(r)
              /\ vpnUseCheckbox' = TRUE
              /\ SetTop([Acted(Top) EXCEPT !.pc = "U163", !.vpn = @ \cup {"start"}])
              /\ Observe([watch EXCEPT !.asked.vpn = reply, !.fixes = @ \cup {"vpn"}])
         ELSE /\ SetTop([Top EXCEPT !.pc = "U163"])
              /\ Observe([watch EXCEPT !.asked.vpn = reply])
              /\ UNCHANGED <<procs, vpnUseCheckbox, dlg, hcall>>
    /\ UNCHANGED <<monVars, envVars, nmVars, intervalSpinBox, spinReadOnly,
                   autoButtonEnabled, stopButtonEnabled, timerActive, timerInterval,
                   autoConfig, dlg, hcall>>

\* lines 163-166
StatusEnd ==
    /\ At("U163")
    /\ \E tasklistFails \in BOOLEAN :
         vpnUseCheckbox' = (IF is_psiphon_running(procs, tasklistFails)
                            THEN TRUE ELSE vpnUseCheckbox)
    /\ monitor_start
    /\ SetTop([Top EXCEPT !.pc = "return", !.refreshed = TRUE])
    /\ UNCHANGED <<procs, envVars, nmVars, intervalSpinBox, spinReadOnly,
                   autoButtonEnabled, stopButtonEnabled, timerActive, timerInterval,
                   autoConfig, watch, dlg, hcall>>

\* the handler returns to the event loop that called it
Return ==
    /\ At("return")
    /\ stack' = SubSeq(stack, 1, Len(stack) - 1)
    /\ UNCHANGED <<procs, monVars, envVars, nmVars, widgets, watch, dlg, hcall>>

\* autoconfig_timer.timeout -> run_once_config (line 66), delivered by
\* whichever event loop is running
TimerTick ==
    /\ timerActive
    /\ InEventLoop
    /\ Len(stack) < MaxDepth
    /\ stack' = Append(stack, NewFrame("run_once", "L248", TRUE))
    /\ UNCHANGED <<procs, monVars, envVars, nmVars, widgets, watch, dlg, hcall>>

\* setOnceButton.clicked -> run_once_config (line 111); a modal dialog
\* keeps the main window from being clicked
ClickSetOnce ==
    /\ stack = <<>>
    /\ stack' = <<NewFrame("run_once", "L248", FALSE)>>
    /\ Observe(NoWatch)
    /\ UNCHANGED <<procs, monVars, envVars, nmVars, widgets, dlg, hcall>>

\* checkNetButton.clicked -> check_all_statuses (lines 110, 237-239)
ClickCheckNet ==
    /\ stack = <<>>
    /\ stack' = <<NewFrame("status", "U138", FALSE)>>
    /\ Observe(NoWatch)
    /\ UNCHANGED <<procs, monVars, envVars, nmVars, widgets, dlg, hcall>>

\* the user ticks or clears the "use VPN" box
ToggleVpnCheckbox ==
    /\ stack = <<>>
    /\ vpnUseCheckbox' = ~vpnUseCheckbox
    /\ UNCHANGED <<procs, monVars, envVars, nmVars, stack, intervalSpinBox, spinReadOnly,
                   autoButtonEnabled, stopButtonEnabled, timerActive, timerInterval,
                   autoConfig, watch, dlg, hcall>>

\* the user edits the interval; a read-only spin box takes no edit
EditInterval ==
    /\ stack = <<>>
    /\ ~spinReadOnly
    /\ \E v \in Intervals : v # intervalSpinBox /\ intervalSpinBox' = v
    /\ UNCHANGED <<procs, monVars, envVars, nmVars, stack, vpnUseCheckbox, spinReadOnly,
                   autoButtonEnabled, stopButtonEnabled, timerActive, timerInterval,
                   autoConfig, watch, dlg, hcall>>

\* start_auto_config without the check of lines 296-299
start_auto_config_NoCheck ==
    /\ stack = <<>>
    /\ spinReadOnly' = TRUE
    /\ autoButtonEnabled' = FALSE
    /\ stopButtonEnabled' = TRUE
    /\ timerActive' = TRUE
    /\ timerInterval' = intervalSpinBox * 1000
    /\ autoConfig' = [on |-> TRUE, use_vpn |-> vpnUseCheckbox,
                       interval |-> intervalSpinBox * 1000]
    /\ stack' = <<NewFrame("start_auto", "L310", FALSE)>>
    /\ UNCHANGED <<procs, monVars, envVars, nmVars, vpnUseCheckbox, intervalSpinBox, watch, dlg, hcall>>

\* start_auto_config, lines 293-310, entered from the main event loop
start_auto_config ==
    /\ stack = <<>>
    /\ IF intervalSpinBox <= 0
       THEN /\ stack' = <<NewFrame("start_auto", "L298", FALSE)>>
            /\ UNCHANGED <<spinReadOnly, autoButtonEnabled, stopButtonEnabled, timerActive,
                           timerInterval, autoConfig>>
       ELSE /\ spinReadOnly' = TRUE
            /\ autoButtonEnabled' = FALSE
            /\ stopButtonEnabled' = TRUE
            /\ timerActive' = TRUE
            /\ timerInterval' = intervalSpinBox * 1000
            /\ autoConfig' = [on |-> TRUE, use_vpn |-> vpnUseCheckbox,
                               interval |-> intervalSpinBox * 1000]
            /\ stack' = <<NewFrame("start_auto", "L310", FALSE)>>
    /\ UNCHANGED <<procs, monVars, envVars, nmVars, vpnUseCheckbox, intervalSpinBox, watch, dlg, hcall>>

\* autoConfigButton.clicked -> start_auto_config (line 112); a disabled
\* button emits no click
ClickAutoConfig ==
    /\ autoButtonEnabled
    /\ start_auto_config

\* stop_auto_config with line 314 left out: the timer keeps running
stop_auto_config_NoTimerStop ==
    /\ stack = <<>>
    /\ spinReadOnly' = FALSE
    /\ autoButtonEnabled' = TRUE
    /\ stopButtonEnabled' = FALSE
    /\ autoConfig' = NoConfig
    /\ stack' = <<NewFrame("stop_auto", "L320", FALSE)>>
    /\ UNCHANGED <<procs, monVars, envVars, nmVars, vpnUseCheckbox, intervalSpinBox,
                   timerActive, timerInterval, watch, dlg, hcall>>

\* stop_auto_config, lines 312-320, entered from the main event loop
stop_auto_config ==
    /\ stack = <<>>
    /\ timerActive' = FALSE
    /\ spinReadOnly' = FALSE
    /\ autoButtonEnabled' = TRUE
    /\ stopButtonEnabled' = FALSE
    /\ autoConfig' = NoConfig
    /\ stack' = <<NewFrame("stop_auto", "L320", FALSE)>>
    /\ UNCHANGED <<procs, monVars, envVars, nmVars, vpnUseCheckbox, intervalSpinBox,
                   timerInterval, watch, dlg, hcall>>

\* stopAutoConfigButton.clicked -> stop_auto_config (line 113)
ClickStopAutoConfig ==
    /\ stopButtonEnabled
    /\ stop_auto_config

\* the message box of line 298, 310 or 320 is closed
MessageClosed ==
    /\ stack # <<>>
    /\ Top.pc \in {"L298", "L310", "L320"}
    /\ SetTop([Top EXCEPT !.pc = "return"])
    /\ UNCHANGED <<procs, monVars, envVars, nmVars, widgets, watch, dlg, hcall>>

(***************************************************************************)
(* WifiProfilesModel (core/model/wifi_profiles_model.py).  The table is a  *)
(* sequence of (ssid, password) rows in SELECT order.  fault names what    *)
(* the database refuses during one call: "noconn" there is no connection,  *)
(* "select", "insert", "update" that statement raises sqlite3.Error,       *)
(* "commit" every commit raises it.                                        *)
(***************************************************************************)
\* get_password: the stored password of ssid, or None
get_password(st, ssid) ==
    IF \E i \in 1..Len(st) : st[i][1] = ssid
    THEN st[CHOOSE i \in 1..Len(st) : st[i][1] = ssid][2]
    ELSE None

\* save_profile: the INSERT raises sqlite3.Error on a stored ssid, the
\* primary key
save_profile(st, ssid, password, fault) ==
    IF fault = "insert" \/ get_password(st, ssid) # None
    THEN st
    ELSE Append(st, <<ssid, password>>)

\* lines 90-91
RECURSIVE SaveAll(_, _, _, _)
SaveAll(st, news, i, fault) ==
    IF i > Len(news) THEN st
    ELSE SaveAll(save_profile(st, news[i][1], news[i][2], fault), news, i + 1, fault)

\* lines 140-155: the UPDATE of each duplicate whose choice is "replace"
RECURSIVE ReplaceAll(_, _, _, _, _)
ReplaceAll(st, dups, i, choices, fault) ==
    IF i > Len(dups) THEN st
    ELSE LET e == dups[i]
             upd == [k \in 1..Len(st) |-> IF st[k][1] = e[1] THEN e ELSE st[k]]
         IN  ReplaceAll(IF choices[e[1]] = "replace" /\ fault # "update" THEN upd ELSE st,
                        dups, i + 1, choices, fault)

\* handle_duplicate_profiles that applies the choices of a cancelled dialog
handle_duplicate_profiles_OnCancel(st, dups, result, choices, fault) ==
    [ret |-> dups = <<>> \/ result = "Accepted",
     store |-> ReplaceAll(st, dups, 1, choices, fault)]

\* handle_duplicate_profiles: result is what DuplicateProfilesDialog.exec()
\* returned, choices what get_choices() gives
handle_duplicate_profiles(st, dups, result, choices, fault) ==
    IF dups = <<>> THEN [ret |-> TRUE, store |-> st]
    ELSE IF result = "Accepted"
    THEN [ret |-> TRUE, store |-> ReplaceAll(st, dups, 1, choices, fault)]
    ELSE [ret |-> FALSE, store |-> st]

\* collect_duplicate_profiles: its result and the committed table.  The
\* result of save_profile and of handle_duplicate_profiles is not looked
\* at; a failing commit ends in the rollback of line 106.
collect_duplicate_profiles(st, batch, result, choices, fault) ==
    IF fault \in {"noconn", "select", "commit"} THEN [ret |-> FALSE, store |-> st]
    ELSE LET dups == SelectSeq(batch, LAMBDA e : get_password(st, e[1]) \notin {None, e[2]})
             news == SelectSeq(batch, LAMBDA e : get_password(st, e[1]) = None)
             saved == SaveAll(st, news, 1, fault)
         IN  [ret |-> TRUE,
              store |-> handle_duplicate_profiles(saved, dups, result, choices, fault).store]

\* no handler of the profile store has been observed
NoHandlerCall ==
    [op |-> "none", before |-> <<>>, batch |-> <<>>, result |-> "none",
     choices |-> [s \in SSIDs |-> "skip"], fault |-> "none", ret |-> FALSE,
     reported |-> "none", choice |-> "none", set |-> FALSE, connect |-> FALSE]

(***************************************************************************)
(* The handlers of MainController that use the profile store.  hcall holds *)
(* what is observed of the latest one: the batch, the database fault, what *)
(* collect_duplicate_profiles returned and, of load_system_wifi_profiles,  *)
(* the table before it and the duplicates dialog's result and choices;     *)
(* what handle_save_profile reported                                       *)
(* ("saved", "failed", "missing"), how the selection dialog of             *)
(* handle_switch_wifi was left ("row": accepted with a row selected,       *)
(* "none": accepted with none, "cancel"), and whether set_wifi_credentials *)
(* and connect_wifi have been called.                                      *)
(***************************************************************************)
\* load_system_wifi_profiles, lines 117-121: the batch is the list that
\* get_wifi_passwords returns, in the order of the listing
LoadSystemProfiles ==
    /\ stack = <<>>
    /\ \E listing \in {"ok", "nonzero"} :
       \E item \in (IF listing = "ok" THEN KeyOutcomes ELSE {"ok"}) :
       \E bad \in (IF item = "ok" THEN {"Home"} ELSE SSIDs) :
         LET got == get_wifi_passwords(osProfiles, listing, bad, item)
         IN  \E batch \in {b \in UNION {[1..n -> got] : n \in {Cardinality(got)}} :
                               {b[i] : i \in 1..Len(b)} = got} :
               \* the dialog is shown for the entries stored with another
               \* password, and its choices hold these SSIDs only; an
               \* INSERT or UPDATE can fail only where one is executed
               LET dup(s) == /\ get_password(batch, s) # None
                             /\ get_password(store, s) \notin {None, get_password(batch, s)}
                   anyDup == \E s \in SSIDs : dup(s)
                   anyNew == \E i \in 1..Len(batch) : get_password(store, batch[i][1]) = None
               IN
               \E fault \in {"none", "noconn", "select", "commit"}
                             \cup (IF anyNew THEN {"insert"} ELSE {})
                             \cup (IF anyDup THEN {"update"} ELSE {}) :
               LET shown == fault \notin {"noconn", "select"} /\ anyDup
               IN
               \E result \in (IF shown THEN {"Accepted", "Rejected"} ELSE {"none"}),
                  choices \in {ch \in [SSIDs -> {"replace", "skip"}] :
                                 \A s \in SSIDs : ch[s] = "replace" => (shown /\ dup(s))} :
                 LET c == collect_duplicate_profiles(store, batch, result, choices, fault)
                 IN  /\ store' = c.store
                     /\ hcall' = [NoHandlerCall EXCEPT
                                    !.op = "collect_duplicate_profiles", !.before = store,
                                    !.batch = batch, !.result = result, !.choices = choices,
                                    !.fault = fault, !.ret = c.ret]
    /\ UNCHANGED <<procs, monVars, osSsid, inRange, osProfiles, internetUp, xmlFiles, nmVars,
                   stack, widgets, watch, dlg>>

\* saveProfileButton.clicked -> handle_save_profile, lines 192-204 and
\* 212-217: up to the answer to "connect now?"
HandleSaveProfile ==
    /\ stack = <<>>
    /\ \E ssid \in SSIDs \cup {""}, password \in Passwords \cup {""} :
         LET h == [NoHandlerCall EXCEPT !.op = "handle_save_profile",
                                        !.batch = << <<ssid, password>> >>]
         IN  IF ssid = "" \/ password = ""
             THEN /\ hcall' = [h EXCEPT !.reported = "missing"]
                  /\ UNCHANGED <<store, stack>>
             ELSE \* the duplicates dialog is shown when the SSID is stored
                  \* with another password; an INSERT or UPDATE can fail
                  \* only where one is executed
                  LET old == get_password(store, ssid) IN
                  \E fault \in {"none", "noconn", "select", "commit"}
                                \cup (IF old = None THEN {"insert"} ELSE {"update"}) :
                  LET shown == fault \notin {"noconn", "select"} /\ old \notin {None, password}
                  IN
                  \E result \in (IF shown THEN {"Accepted", "Rejected"} ELSE {"none"}),
                     choices \in {ch \in [SSIDs -> {"replace", "skip"}] :
                                    \A s \in SSIDs :
                                      ch[s] = "replace" => (shown /\ s = ssid)},
                     reply \in {"Yes", "No"} :
                    LET c == collect_duplicate_profiles(store, h.batch, result, choices, fault)
                    IN  /\ store' = c.store
                        /\ hcall' = [h EXCEPT !.fault = fault, !.ret = c.ret,
                                              !.reported = IF c.ret THEN "saved" ELSE "failed"]
                        /\ stack' = IF c.ret /\ reply = "Yes"
                                    THEN <<[NewFrame("save_profile", "S205", FALSE)
                                              EXCEPT !.sel = <<ssid, password>>]>>
                                    ELSE stack
    /\ UNCHANGED <<procs, monVars, osSsid, inRange, osProfiles, internetUp, xmlFiles, nmVars,
                   widgets, watch, dlg>>

\* handle_save_profile, lines 205-209
SaveProfileSetTarget ==
    /\ At("S205")
    /\ \E tasklistFails \in BOOLEAN :
         IF is_psiphon_running(procs, tasklistFails)
         THEN \E r \in BOOLEAN : stop_psiphon(r)
         ELSE UNCHANGED procs
    /\ current_ssid' = Top.sel[1]
    /\ current_password' = Top.sel[2]
    /\ SetTop([Top EXCEPT !.pc = "S210"])
    /\ hcall' = [hcall EXCEPT !.set = TRUE]
    /\ UNCHANGED <<monVars, envVars, available_networks, nmCall, widgets, watch, dlg>>

\* handle_save_profile, line 210
SaveProfileConnect ==
    /\ At("S210")
    /\ \E r \in BOOLEAN : connect_wifi(r)
    /\ SetTop([Top EXCEPT !.pc = "return"])
    /\ hcall' = [hcall EXCEPT !.connect = TRUE]
    /\ UNCHANGED <<procs, monVars, inRange, internetUp, store, widgets, watch, dlg>>

\* switchWifiButton.clicked -> handle_switch_wifi, lines 222-223: the
\* WifiListController dialog until it closes.  delete_wifi may have
\* deleted row d (0: none) and leaves its selected_ssid and
\* selected_password; choose_wifi takes row c of the table, or with no row
\* selected (c = 0) shows its warning, and accepts the dialog.
HandleSwitchWifi ==
    /\ stack = <<>>
    /\ \E d \in 0..Len(store), code \in {"Accepted", "Rejected"} :
         LET st == IF d = 0 THEN store ELSE RemoveAt(store, d)
             kept == IF d = 0 THEN <<None, None>> ELSE store[d]
         IN  \E c \in 0..Len(st) :
               /\ store' = st
               /\ hcall' = [NoHandlerCall EXCEPT
                              !.op = "handle_switch_wifi",
                              !.choice = IF code = "Rejected" THEN "cancel"
                                         ELSE IF c = 0 THEN "none" ELSE "row"]
               /\ stack' = IF code = "Rejected" THEN stack
                           ELSE <<[NewFrame("switch_wifi", "W224", FALSE)
                                     EXCEPT !.sel = IF c = 0 THEN kept ELSE st[c]]>>
    /\ UNCHANGED <<procs, monVars, osSsid, inRange, osProfiles, internetUp, xmlFiles, nmVars,
                   widgets, watch, dlg>>

\* handle_switch_wifi, lines 224-229
SwitchSetTarget ==
    /\ At("W224")
    /\ current_ssid' = Top.sel[1]
    /\ current_password' = Top.sel[2]
    /\ \E tasklistFails \in BOOLEAN :
         IF is_psiphon_running(procs, tasklistFails)
         THEN \E r \in BOOLEAN : stop_psiphon(r)
         ELSE UNCHANGED procs
    /\ SetTop([Top EXCEPT !.pc = "W231"])
    /\ hcall' = [hcall EXCEPT !.set = TRUE]
    /\ UNCHANGED <<monVars, envVars, available_networks, nmCall, widgets, watch, dlg>>

\* handle_switch_wifi, lines 231-232: connect_wifi, then
\* check_all_statuses
SwitchConnect ==
    /\ At("W231")
    /\ \E r \in BOOLEAN : connect_wifi(r)
    /\ SetTop([Top EXCEPT !.pc = "U138"])
    /\ hcall' = [hcall EXCEPT !.connect = TRUE]
    /\ UNCHANGED <<procs, monVars, inRange, internetUp, store, widgets, watch, dlg>>

(***************************************************************************)
(* TimedQuestionDialog (core/utils/message_box.py), as MessageBox.question *)
(* opens it with timed=True.  Of dlg, state is "none" before any dialog,   *)
(* "open" from __init__ until done(), "closed" after; given is the timeout *)
(* argument and timeout the attribute counted down; timerActive says that  *)
(* the one-second QTimer is running; result is the code given to done(),   *)
(* which exec() returns.  ticks counts the timer's timeouts and how names  *)
(* what closed the dialog: "timeout", or the button clicked.               *)
(***************************************************************************)
\* the default of MessageBox.question's timeout argument
DefaultTimeout == 10

NoDialog == [state |-> "none", given |-> 0, timeout |-> 0, ticks |-> 0,
             timerActive |-> FALSE, result |-> "none", how |-> "none"]

\* QDialog.done(code)
done(d, code) == [d EXCEPT !.state = "closed", !.result = code]

\* update_countdown, lines 41-47
update_countdown(d) ==
    IF d.timeout > 0
    THEN [d EXCEPT !.timeout = @ - 1]
    ELSE done([d EXCEPT !.timerActive = FALSE], "Yes")

\* __init__ without the call of line 37
TimedQuestionDialog_NoFirstUpdate(t) ==
    [NoDialog EXCEPT !.state = "open", !.given = t, !.timeout = t, !.timerActive = TRUE]

\* __init__, lines 15-37: the timer is started and update_countdown is
\* called once
TimedQuestionDialog(t) ==
    update_countdown([NoDialog EXCEPT !.state = "open", !.given = t, !.timeout = t,
                                      !.timerActive = TRUE])

\* MessageBox.question(timed=True), lines 150-152, up to exec() showing
\* the dialog.  The callers pass no timeout; the dialog is taken with each
\* positive timeout up to the default.
DialogOpen ==
    /\ dlg.state # "open"
    /\ \E t \in 1..DefaultTimeout : dlg' = TimedQuestionDialog(t)
    /\ UNCHANGED <<procs, monVars, envVars, nmVars, stack, widgets, watch, hcall>>

\* the QTimer times out: update_countdown
DialogTick ==
    /\ dlg.timerActive
    /\ LET d == update_countdown([dlg EXCEPT !.ticks = @ + 1])
       IN  dlg' = [d EXCEPT !.how = IF dlg.state = "open" /\ d.state = "closed"
                                    THEN "timeout" ELSE @]
    /\ UNCHANGED <<procs, monVars, envVars, nmVars, stack, widgets, watch, hcall>>

\* the Yes button: accept, lines 51-52
DialogAccept ==
    /\ dlg.state = "open"
    /\ dlg' = [done([dlg EXCEPT !.timerActive = FALSE], "Yes") EXCEPT !.how = "Yes"]
    /\ UNCHANGED <<procs, monVars, envVars, nmVars, stack, widgets, watch, hcall>>

\* the No button: reject, lines 56-57
DialogReject ==
    /\ dlg.state = "open"
    /\ dlg' = [done([dlg EXCEPT !.timerActive = FALSE], "No") EXCEPT !.how = "No"]
    /\ UNCHANGED <<procs, monVars, envVars, nmVars, stack, widgets, watch, hcall>>

(***************************************************************************)
(* The environment of the controller.                                      *)
(***************************************************************************)
\* the machine joins a network it has a profile for, or loses its network
WifiChanges ==
    /\ \E s \in ({NoSsid} \cup (inRange \cap osProfiles)) \ {osSsid} : osSsid' = s
    /\ UNCHANGED <<procs, monVars, inRange, osProfiles, internetUp, store, xmlFiles, nmVars, ctlVars>>

InternetChanges ==
    /\ internetUp' = ~internetUp
    /\ UNCHANGED <<procs, monVars, osSsid, inRange, osProfiles, store, xmlFiles, nmVars, ctlVars>>

\* the user starts or ends the VPN client outside the application
VpnClientChanges ==
    /\ procs' = IF is_psiphon_running(procs, FALSE)
                THEN SelectSeq(procs, LAMBDA p : ~IsUiProc(p))
                ELSE Append(procs, UiProc)
    /\ UNCHANGED <<monVars, envVars, nmVars, ctlVars>>

\* the state in which PsiphonMonitor.__init__ leaves the monitor
MonInit ==
    /\ monitoring = FALSE
    /\ mpc = "none"
    /\ last_connected_status = None
    /\ sample = NoSample
    /\ lastEmit = <<>>
    /\ notified = 0
    /\ prevSample = None
    /\ loops = 0
    /\ emitsInPeriod = 0
    /\ cpc = "idle"
    /\ stopped = FALSE
    /\ redundantStart = FALSE

\* NetworkManager.__init__ and the widgets' defaults of MainController.__init__
CtlInit ==
    /\ stack = <<>>
    /\ intervalSpinBox = 20
    /\ spinReadOnly = FALSE
    /\ autoButtonEnabled = TRUE
    /\ stopButtonEnabled = FALSE
    /\ timerActive = FALSE
    /\ timerInterval = 0
    /\ autoConfig = NoConfig
    /\ available_networks = {}
    /\ nmCall = NoCall
    /\ dlg = NoDialog
    /\ hcall = NoHandlerCall

\* a monitor on its own, with any process table
InitMonitor ==
    /\ procs \in ProcTables
    /\ MonInit
    /\ CtlInit
    /\ osSsid = NoSsid /\ inRange = {} /\ osProfiles = {} /\ internetUp = FALSE
    /\ store = <<>> /\ xmlFiles = {}
    /\ watch = WatchOff
    /\ current_ssid = None /\ current_password = None
    /\ vpnUseCheckbox = FALSE

StoreChoices == {<<>>, << <<"HomeNet", "pw1">> >>}

\* after MainController.__init__: the store is loaded, set_current_wifi has
\* taken the current network's credential if the store has it, the status
\* refresh of line 71 has started the monitor (line 165) and line 74 found
\* it running
Constructed ==
    /\ procs \in {<<>>, <<UiProc>>}
    /\ monitoring = FALSE
    /\ mpc = "entry"
    /\ last_connected_status = None
    /\ sample = NoSample
    /\ lastEmit = <<>>
    /\ notified = 0
    /\ prevSample = None
    /\ loops = 1
    /\ emitsInPeriod = 0
    /\ cpc = "idle"
    /\ stopped = FALSE
    /\ redundantStart = TRUE
    /\ CtlInit
    /\ store \in StoreChoices
    /\ xmlFiles = {}
    /\ inRange \in SUBSET {"HomeNet"}
    /\ osProfiles = {store[i][1] : i \in 1..Len(store)}
    /\ osSsid \in {NoSsid} \cup (inRange \cap osProfiles)
    /\ internetUp \in BOOLEAN
    /\ \E i \in 0..Len(store) :
         /\ current_ssid = IF i = 0 THEN None ELSE store[i][1]
         /\ current_password = IF i = 0 THEN None ELSE store[i][2]
    /\ vpnUseCheckbox \in BOOLEAN

\* the application as it runs: no invocation is under watch
Init == Constructed /\ watch = WatchOff

MonitorNext ==
    \/ MonEntry
    \/ MonWhile
    \/ MonCheckTunnel
    \/ MonCompare
    \/ MonEmit
    \/ MonSleep
    \/ MonitorStart
    \/ MonitorStopSignal
    \/ MonitorStopWait
    \/ ProcStarts
    \/ ProcExits
    \/ ConnChanges

SpecMonitor == InitMonitor /\ [][MonitorNext]_vars

\* a step of the monitor thread
MonThread == MonEntry \/ MonWhile \/ MonCheckTunnel \/ MonCompare \/ MonEmit \/ MonSleep

\* the operating system keeps scheduling the monitor thread, and wait()
\* returns once run() has returned
SpecMonitorLive ==
    InitMonitor /\ [][MonitorNext]_vars /\ WF_vars(MonThread) /\ WF_vars(MonitorStopWait)

Next ==
    \/ RunOnceBegin
    \/ RunOnceConnect
    \/ RunOnceRecheck
    \/ WifiErrorClosed
    \/ RunOnceProbe
    \/ RunOnceDisconnect
    \/ RunOnceReconnect
    \/ RunOnceReprobe
    \/ InternetErrorClosed
    \/ RunOnceVpn
    \/ RunOnceVpnVerify
    \/ VpnWarningClosed
    \/ StatusBegin
    \/ ResetQuestionAnswered
    \/ StatusResetDisconnect
    \/ StatusResetConnect
    \/ StatusVpnCheck
    \/ VpnQuestionAnswered
    \/ StatusEnd
    \/ Return
    \/ TimerTick
    \/ ClickSetOnce
    \/ ClickCheckNet
    \/ ToggleVpnCheckbox
    \/ EditInterval
    \/ ClickAutoConfig
    \/ ClickStopAutoConfig
    \/ MessageClosed
    \/ WifiChanges
    \/ InternetChanges
    \/ VpnClientChanges

Spec == Init /\ [][Next]_vars

\* one handler at a time in an environment that does not change on its own:
\* no timer, and only the application starts or ends anything
NextOneRun ==
    \/ RunOnceBegin
    \/ RunOnceConnect
    \/ RunOnceRecheck
    \/ WifiErrorClosed
    \/ RunOnceProbe
    \/ RunOnceDisconnect
    \/ RunOnceReconnect
    \/ RunOnceReprobe
    \/ InternetErrorClosed
    \/ RunOnceVpn
    \/ RunOnceVpnVerify
    \/ VpnWarningClosed
    \/ StatusBegin
    \/ ResetQuestionAnswered
    \/ StatusResetDisconnect
    \/ StatusResetConnect
    \/ StatusVpnCheck
    \/ VpnQuestionAnswered
    \/ StatusEnd
    \/ Return
    \/ ClickSetOnce
    \/ ClickCheckNet

SpecOneRun == Init /\ [][NextOneRun]_vars

\* one handler at a time, each invocation under watch, in an environment
\* that changes as it likes while the handler runs
InitWatch == Constructed /\ watch = NoWatch

NextWatch ==
    \/ RunOnceBegin
    \/ RunOnceConnect
    \/ RunOnceRecheck
    \/ WifiErrorClosed
    \/ RunOnceProbe
    \/ RunOnceDisconnect
    \/ RunOnceReconnect
    \/ RunOnceReprobe
    \/ InternetErrorClosed
    \/ RunOnceVpn
    \/ RunOnceVpnVerify
    \/ VpnWarningClosed
    \/ StatusBegin
    \/ ResetQuestionAnswered
    \/ StatusResetDisconnect
    \/ StatusResetConnect
    \/ StatusVpnCheck
    \/ VpnQuestionAnswered
    \/ StatusEnd
    \/ Return
    \/ ClickSetOnce
    \/ ClickCheckNet
    \/ WifiChanges
    \/ InternetChanges
    \/ VpnClientChanges

SpecWatch == InitWatch /\ [][NextWatch]_vars

\* handle_save_profile, one invocation at a time, with HomeNet in range,
\* the internet reachable and the "use VPN" box clear: the handler reads
\* neither of the last two
InitStore == Init /\ inRange = {"HomeNet"} /\ internetUp = TRUE /\ vpnUseCheckbox = FALSE

SpecStore ==
    /\ InitStore
    /\ [][\/ HandleSaveProfile
          \/ SaveProfileSetTarget
          \/ SaveProfileConnect
          \/ Return]_vars

\* handle_switch_wifi with the status refresh it ends in, one invocation
\* at a time
SpecSwitch ==
    /\ Init
    /\ [][\/ HandleSwitchWifi
          \/ SwitchSetTarget
          \/ SwitchConnect
          \/ StatusBegin
          \/ ResetQuestionAnswered
          \/ StatusResetDisconnect
          \/ StatusResetConnect
          \/ StatusVpnCheck
          \/ VpnQuestionAnswered
          \/ StatusEnd
          \/ Return]_vars

\* a timed question dialog on its own: the user clicks when they like, or
\* never; the timer fires as long as it is running
InitDialog == InitMonitor /\ procs = <<>>

SpecDialog ==
    /\ InitDialog
    /\ [][\/ DialogOpen
          \/ DialogTick
          \/ DialogAccept
          \/ DialogReject]_vars
    /\ WF_vars(DialogTick)

\* the rows of the profiles table: ssid is its primary key
Stores ==
    {st \in UNION {[1..n -> SSIDs \X Passwords] : n \in 0..Cardinality(SSIDs)} :
        \A i, j \in 1..Len(st) : st[i][1] = st[j][1] => i = j}

\* collect_duplicate_profiles applied to any table and any list of the
\* system's profiles
InitCollect ==
    /\ procs = <<>>
    /\ MonInit
    /\ CtlInit
    /\ osSsid = NoSsid /\ inRange = {} /\ internetUp = FALSE /\ xmlFiles = {}
    /\ watch = WatchOff
    /\ current_ssid = None /\ current_password = None
    /\ vpnUseCheckbox = FALSE
    /\ store \in Stores
    /\ osProfiles \in SUBSET SSIDs

SpecCollect == InitCollect /\ [][LoadSystemProfiles]_vars

\* a NetworkManager with any target, on a machine in any state
InitNM ==
    /\ procs \in {<<>>, <<UiProc>>}
    /\ MonInit
    /\ CtlInit
    /\ vpnUseCheckbox = FALSE
    /\ watch = WatchOff
    /\ internetUp = FALSE
    /\ store \in Stores
    /\ xmlFiles = {}
    /\ inRange \in SUBSET SSIDs
    /\ osProfiles \in SUBSET SSIDs
    /\ osSsid \in {NoSsid} \cup (inRange \cap osProfiles)
    /\ current_ssid \in {None} \cup SSIDs
    /\ current_password \in {None, "pw1"}

\* connectWifiButton.clicked -> connect_wifi (line 105)
NmConnect ==
    /\ stack = <<>>
    /\ \E r \in BOOLEAN : connect_wifi_call(r, TRUE)
    /\ UNCHANGED <<procs, monVars, inRange, internetUp, store, ctlVars>>

\* disconnectWifiButton.clicked -> disconnect_wifi (line 106)
NmDisconnect ==
    /\ stack = <<>>
    /\ \E r \in BOOLEAN : disconnect_wifi_call(r, TRUE)
    /\ UNCHANGED <<procs, monVars, inRange, osProfiles, internetUp, store, xmlFiles, current_ssid,
                   current_password, available_networks, ctlVars>>

\* connectVPNButton.clicked -> start_psiphon (line 108)
NmStartPsiphon ==
    /\ stack = <<>>
    /\ \E r \in BOOLEAN : start_psiphon_call(r, TRUE)
    /\ UNCHANGED <<monVars, envVars, current_ssid, current_password, available_networks,
                   ctlVars>>

\* disconnectVPNButton.clicked -> stop_psiphon (line 109)
NmStopPsiphon ==
    /\ stack = <<>>
    /\ \E r \in BOOLEAN : stop_psiphon_call(r, TRUE)
    /\ UNCHANGED <<monVars, envVars, current_ssid, current_password, available_networks,
                   ctlVars>>

NextNM ==
    \/ NmConnect
    \/ NmDisconnect
    \/ NmStartPsiphon
    \/ NmStopPsiphon

SpecNM == InitNM /\ [][NextNM]_vars

\* a NetworkManager whose methods are called one at a time, each command of
\* a method ending as the environment chooses
InitProbe ==
    /\ procs \in {<<>>, <<UiProc>>}
    /\ MonInit
    /\ CtlInit
    /\ vpnUseCheckbox = FALSE
    /\ watch = WatchOff
    /\ internetUp \in BOOLEAN
    /\ store \in StoreChoices
    /\ xmlFiles = {}
    /\ inRange = SSIDs
    /\ osProfiles \in SUBSET SSIDs
    /\ osSsid \in {NoSsid} \cup osProfiles
    /\ current_ssid \in {None} \cup SSIDs
    /\ current_password \in {None, "pw1"}

\* get_wifi_status(); "interfaces" is netsh wlan show interfaces
NmWifiStatus ==
    /\ stack = <<>>
    /\ \E exc \in {"none"} \cup (IF Falsy(current_ssid) THEN {} ELSE CheckedRunFaults) :
         nmCall' = [Call("get_wifi_status",
                         get_wifi_status(current_ssid, osSsid, exc # "none"),
                         IF Falsy(current_ssid) THEN {} ELSE {"interfaces"})
                      EXCEPT !.fault = Thrown("get_wifi_status", exc)]
    /\ UNCHANGED <<procs, monVars, envVars, current_ssid, current_password,
                   available_networks, ctlVars>>

\* get_current_wifi()
NmCurrentWifi ==
    /\ stack = <<>>
    /\ \E exc \in {"none"} \cup CheckedRunFaults :
         nmCall' = [Call("get_current_wifi", get_current_wifi(osSsid, exc # "none"),
                         {"interfaces"})
                      EXCEPT !.fault = Thrown("get_current_wifi", exc)]
    /\ UNCHANGED <<procs, monVars, envVars, current_ssid, current_password,
                   available_networks, ctlVars>>

\* get_wifi_passwords(); "profiles" is netsh wlan show profiles, "key" netsh
\* wlan show profile name=... key=clear.  A non-zero exit of the listing is
\* tested at line 53 and raises nothing; an exception of a key query is
\* caught per profile (lines 79-81) and the method goes on.
NmWifiPasswords ==
    /\ stack = <<>>
    /\ \E listing \in {"ok", "nonzero"} \cup RunFaults :
         \E bad \in (IF listing = "ok" THEN osProfiles ELSE {}) \cup {None} :
           \E item \in (IF bad = None THEN {"ok"} ELSE KeyOutcomes) :
             nmCall' = [Call("get_wifi_passwords",
                             get_wifi_passwords(osProfiles, listing, bad, item),
                             {"profiles"} \cup (IF listing = "ok" /\ osProfiles # {}
                                                THEN {"key"} ELSE {}))
                          EXCEPT !.fault = IF listing = "nonzero" THEN "caught"
                                           ELSE IF listing # "ok"
                                           THEN Thrown("get_wifi_passwords", listing)
                                           ELSE IF item = "raises" THEN "item"
                                           ELSE "none",
                                 !.outcome = bad]
    /\ UNCHANGED <<procs, monVars, envVars, current_ssid, current_password,
                   available_networks, ctlVars>>

\* get_available_wifi(); "scan" is netsh wlan show networks
NmAvailableWifi ==
    /\ stack = <<>>
    /\ \E exc \in {"none"} \cup {"CalledProcessError", "FileNotFoundError",
                                 "UnicodeDecodeError", "IndexError"} :
         /\ available_networks' = get_available_wifi(inRange, exc # "none")
         /\ nmCall' = [Call("get_available_wifi", available_networks', {"scan"})
                         EXCEPT !.fault = Thrown("get_available_wifi", exc)]
    /\ UNCHANGED <<procs, monVars, envVars, current_ssid, current_password, ctlVars>>

\* get_internet_status(); "http" is the GET of the connectivity-check URL
NmInternetStatus ==
    /\ stack = <<>>
    /\ \E outcome \in ProbeOutcomes(internetUp) :
         nmCall' = [Call("get_internet_status", get_internet_status(outcome), {"http"})
                      EXCEPT !.outcome = outcome,
                             !.fault = IF outcome \in {"Timeout", "ConnectionError"}
                                       THEN Thrown("get_internet_status", outcome)
                                       ELSE "none"]
    /\ UNCHANGED <<procs, monVars, envVars, current_ssid, current_password,
                   available_networks, ctlVars>>

\* is_psiphon_running(); "tasklist" is the tasklist command
NmIsPsiphonRunning ==
    /\ stack = <<>>
    /\ \E exc \in {"none"} \cup CheckedRunFaults :
         nmCall' = [Call("is_psiphon_running", is_psiphon_running(procs, exc # "none"),
                         {"tasklist"})
                      EXCEPT !.fault = Thrown("is_psiphon_running", exc)]
    /\ UNCHANGED <<procs, monVars, envVars, current_ssid, current_password,
                   available_networks, ctlVars>>

\* create_wifi_profile().  Its failures are an OSError of open or os.remove
\* and a CalledProcessError of the import.
NmCreateProfile ==
    /\ stack = <<>>
    /\ \E outcome \in (IF Falsy(current_ssid) \/ Falsy(current_password)
                       THEN {"ok"} ELSE CreateOutcomes) :
         LET made == create_wifi_profile(current_ssid, current_password, osProfiles,
                                         xmlFiles, outcome)
             exc == IF Falsy(current_ssid) \/ Falsy(current_password) \/ outcome = "ok"
                    THEN "none"
                    ELSE IF outcome = "import_fails" THEN "CalledProcessError"
                    ELSE "OSError"
         IN  /\ osProfiles' = made.profiles
             /\ xmlFiles' = made.files
             /\ nmCall' = [Call("create_wifi_profile", made.ret, made.cmds)
                             EXCEPT !.outcome = outcome,
                                    !.fault = Thrown("create_wifi_profile", exc)]
    /\ UNCHANGED <<procs, monVars, osSsid, inRange, internetUp, store, current_ssid,
                   current_password, available_networks, ctlVars>>

NextProbe ==
    \/ NmWifiStatus
    \/ NmCurrentWifi
    \/ NmWifiPasswords
    \/ NmAvailableWifi
    \/ NmInternetStatus
    \/ NmIsPsiphonRunning
    \/ NmCreateProfile
    \/ NmConnect
    \/ NmDisconnect
    \/ NmStartPsiphon
    \/ NmStopPsiphon

SpecProbe == InitProbe /\ [][NextProbe]_vars

\* start_auto_config and stop_auto_config called as methods, whatever the
\* state of their buttons, from the main event loop
NextSlots ==
    \/ start_auto_config
    \/ stop_auto_config
    \/ MessageClosed
    \/ Return
    \/ ToggleVpnCheckbox
    \/ EditInterval

SpecSlots == Init /\ [][NextSlots]_vars

(***************************************************************************)
(* Claims about PsiphonMonitor, checked under SpecMonitor.                 *)
(***************************************************************************)

\* C1: every tuple published through status_updated satisfies
\* established => tunnel_active and tunnel_active => tunnel_running.
C1_PublishedChain ==
    lastEmit # <<>> =>
        /\ (lastEmit[4] => lastEmit[3])
        /\ (lastEmit[3] => lastEmit[2])

\* C8: once stop() has returned, and until start() is called again, the
\* monitor thread has terminated: no run() loop is active, so no sample is
\* taken and nothing is emitted.
C8_NoSampleAfterStop == stopped => (~ThreadRunning /\ loops = 0)

C8_Witness == stopped /\ mpc = "finished" /\ lastEmit # <<>>

\* C9: whatever the number of start() calls, at most one sampling loop is
\* active and a sample period holds at most one status_updated emission.
C9_SingleLoop == loops <= 1 /\ emitsInPeriod <= 1

C9_Witness == redundantStart /\ loops = 1 /\ emitsInPeriod = 1

\* C10: a sample logs exactly one state-change line when its established
\* value differs from the previous sample's (or it is the first sample of
\* the run), and none when the value is the same.
C10_EdgeNotification ==
    mpc = "emit" =>
        notified = (IF PyBool(sample.psiphon_connected) # prevSample THEN 1 ELSE 0)

C10_Witness ==
    /\ mpc = "emit"
    /\ prevSample = "False"
    /\ sample.psiphon_connected
    /\ notified = 1

\* C11: the state-change line of a sample is logged after the previous
\* sample's status_updated emission (and the sleep that follows it) and
\* before the emission of its own sample, and every emission carries the
\* sample just taken: no emission is skipped, repeated or out of order.
C11_NotifyBeforeEmit ==
    [][/\ notified' > notified =>
             /\ mpc = "compare"
             /\ emitsInPeriod = 0 /\ emitsInPeriod' = 0
             /\ lastEmit' = lastEmit
       /\ emitsInPeriod' > emitsInPeriod =>
             /\ mpc = "emit"
             /\ notified' = notified
             /\ lastEmit' = <<sample.ui_running, sample.tunnel_running,
                              sample.tunnel_active, sample.psiphon_connected>>]_vars

C11_Witness ==
    /\ mpc = "sleep"
    /\ notified = 1
    /\ emitsInPeriod = 1
    /\ lastEmit = <<TRUE, TRUE, TRUE, TRUE>>
    /\ last_connected_status = "True"

(***************************************************************************)
(* Claims about MainController.run_once_config and auto mode.              *)
(***************************************************************************)
Frames == {stack[i] : i \in 1..Len(stack)}

RunOnceFrames == {f \in Frames : f.kind = "run_once"}

Reported(f, e) == \E i \in 1..Len(f.errs) : f.errs[i] = e

\* C2: at most one invocation of run_once_config is active at any time,
\* also while an invocation waits in a modal dialog.
C2_NoOverlap == Cardinality({i \in 1..Len(stack) : stack[i].kind = "run_once"}) <= 1

\* C3: every invocation of run_once_config has run update_status_labels to
\* its end when it returns.
C3_RefreshOnEveryPath ==
    \A f \in RunOnceFrames : f.pc = "return" => f.refreshed

\* C4: a run that reported the Wi-Fi connect failure reported nothing else
\* and made no internet probe, no Wi-Fi disconnect, no VPN start or stop and
\* no status refresh after it.
C4_WifiFailureIsFinal ==
    \A f \in RunOnceFrames :
        /\ f.pc = "L259" => Reported(f, "wifi")
        /\ Reported(f, "wifi") =>
              f.errs = <<"wifi">> /\ ~f.late /\ f.vpn = {} /\ ~f.refreshed

C4_Witness ==
    \E f \in RunOnceFrames : f.pc = "return" /\ f.errs = <<"wifi">>

\* C5: a run whose second internet probe failed reports the internet
\* failure and makes no VPN start and no VPN stop, whatever use_vpn is.
C5_InternetFailureSkipsVpn ==
    \A f \in RunOnceFrames :
        /\ f.pc = "L270" => f.errs = <<"internet">>
        /\ Reported(f, "internet") => f.vpn = {}

C5_Witness ==
    \E f \in RunOnceFrames : f.pc = "return" /\ f.errs = <<"internet">> /\ f.use_vpn

\* C6: a run that found Wi-Fi connected and the internet reachable, and
\* whose stop command ended the VPN client because use_vpn was unchecked,
\* returns with the VPN client not running.
C6_VpnStoppedAtReturn ==
    \A f \in RunOnceFrames :
        (f.pc = "return" /\ f.direct /\ "stopped" \in f.vpn)
            => ~is_psiphon_running(procs, FALSE)

\* C7: while auto mode runs, every timer-driven run uses the use_vpn value
\* auto mode was started with, and the timer keeps the interval it was
\* started with.
C7_ConfigFixedInAutoMode ==
    /\ timerActive => timerInterval = autoConfig.interval
    /\ \A f \in RunOnceFrames :
         (f.timer /\ f.pc \in {"L254", "L256", "L259", "L262", "L265", "L266", "L267",
                                "L270", "L273"})
             => f.use_vpn = autoConfig.use_vpn

(***************************************************************************)
(* Claims about auto mode.                                                 *)
(***************************************************************************)
\* a step that enters the slot of the given kind from the main event loop
Enters(kind) == stack = <<>> /\ stack' # <<>> /\ stack'[1].kind = kind

\* C12: start_auto_config with an interval of 0 or less opens the error
\* dialog of line 298 and changes neither the timer nor the auto and stop
\* buttons nor the read-only state of the interval field.
C12_RejectBadInterval ==
    [][(Enters("start_auto") /\ intervalSpinBox <= 0) =>
          /\ stack'[1].pc = "L298"
          /\ UNCHANGED <<timerActive, timerInterval, autoButtonEnabled,
                         stopButtonEnabled, spinReadOnly>>]_vars

C12_Witness ==
    /\ At("L298")
    /\ intervalSpinBox = 0
    /\ ~timerActive /\ autoButtonEnabled /\ ~stopButtonEnabled /\ ~spinReadOnly

\* C13: a timer-driven run_once_config begins only between a
\* start_auto_config and the next stop_auto_config; and no step changes or
\* removes an invocation that is in flight: an invocation leaves the GUI
\* thread only by returning.
C13_NoTickAfterStop ==
    [][/\ (Len(stack') > Len(stack) /\ stack'[Len(stack')].timer) => autoConfig.on
       /\ \A i \in 1..Len(stack) :
            \/ i <= Len(stack') /\ stack'[i].kind = stack[i].kind
                                /\ (i < Len(stack) => stack'[i] = stack[i])
            \/ i = Len(stack) /\ Len(stack') = i - 1 /\ stack[i].pc = "return"]_vars

C13_Witness ==
    /\ At("L320")
    /\ ~timerActive
    /\ ~autoConfig.on

\* C14: start_auto_config entered while the timer runs opens an error
\* dialog and leaves the timer, its interval and the widgets as they are;
\* stop_auto_config entered while the timer does not run changes neither.
C14_RejectWhenRunning ==
    [][/\ (Enters("start_auto") /\ timerActive) =>
             /\ stack'[1].pc = "L298"
             /\ UNCHANGED <<timerActive, timerInterval, autoButtonEnabled,
                            stopButtonEnabled, spinReadOnly>>
       /\ (Enters("stop_auto") /\ ~timerActive) =>
             UNCHANGED <<timerActive, timerInterval, autoButtonEnabled,
                         stopButtonEnabled, spinReadOnly>>]_vars

\* C20: a run that warned that the VPN is still not running after the start
\* attempt reported no other failure, goes on to update_status_labels and
\* nowhere else, and has run it to its end when it returns.
C20_VpnFailureNotFatal ==
    \A f \in RunOnceFrames :
        /\ f.pc = "L280" => Reported(f, "vpn")
        /\ Reported(f, "vpn") =>
              /\ f.errs = <<"vpn">>
              /\ "start" \in f.vpn
              /\ f.pc \in {"L280", "U138", "U146", "U151", "U152", "U154", "U156",
                            "U163", "return"}
              /\ (f.pc = "return" => f.refreshed)

C20_Witness ==
    \E f \in RunOnceFrames : f.pc = "return" /\ f.errs = <<"vpn">> /\ f.refreshed

(***************************************************************************)
(* Claims about NetworkManager, checked under SpecNM.                      *)
(***************************************************************************)
\* C15: a connect_wifi made while the machine is associated with the
\* target SSID returns True, issues no scan, no profile creation and no
\* connect command, and leaves current_ssid and current_password as they
\* were.
C15_ConnectIdempotent ==
    (nmCall.op = "connect_wifi" /\ nmCall.assoc # NoSsid /\ nmCall.assoc = nmCall.ssid) =>
        /\ nmCall.ret
        /\ nmCall.cmds = {}
        /\ current_ssid = nmCall.ssid
        /\ current_password = nmCall.password

\* C16: a disconnect_wifi made while the machine is associated with no
\* network returns True and issues no disconnect command, and the machine
\* is still associated with no network.
C16_DisconnectIdempotent ==
    (nmCall.op = "disconnect_wifi" /\ nmCall.assoc = NoSsid) =>
        /\ nmCall.ret
        /\ nmCall.cmds = {}
        /\ osSsid = NoSsid

C16_Witness ==
    /\ nmCall.op = "disconnect_wifi"
    /\ nmCall.assoc = NoSsid
    /\ nmCall.ssid = "HomeNet"
    /\ nmCall.ret

\* C17: when disconnect_wifi has returned True, the machine is associated
\* with no Wi-Fi network.
C17_DisconnectedWhenTrue ==
    (nmCall.op = "disconnect_wifi" /\ nmCall.ret) => osSsid = NoSsid

\* C18: a connect_wifi made with no target scans, and selects the first row
\* of the profile store, in the store's order, whose SSID is in the scanned
\* set, with that row's password; when no row is in the scanned set it
\* selects nothing, returns False and issues no connect command.
C18_FirstMatchInStoreOrder ==
    (nmCall.op = "connect_wifi" /\ nmCall.ssid = None) =>
        /\ "scan" \in nmCall.cmds
        /\ IF \E k \in 1..Len(store) : store[k][1] \in available_networks
           THEN \E k \in 1..Len(store) :
                  /\ store[k][1] \in available_networks
                  /\ \A j \in 1..(k - 1) : store[j][1] \notin available_networks
                  /\ current_ssid = store[k][1]
                  /\ current_password = store[k][2]
           ELSE /\ current_ssid = None
                /\ ~nmCall.ret
                /\ "connect" \notin nmCall.cmds

C18_Witness ==
    /\ nmCall.op = "connect_wifi"
    /\ nmCall.ssid = None
    /\ store = << <<"HomeNet", "pw1">>, <<"Home", "pw2">> >>
    /\ available_networks = {"Home", "HomeNet"}
    /\ current_ssid = "HomeNet"
    /\ current_password = "pw1"

\* C19: start_psiphon launches the client only when it is not running and
\* returns True exactly when it runs afterwards; stop_psiphon issues the
\* kill only when the client runs and returns True exactly when it does not
\* run afterwards; each returns True and issues nothing when the client is
\* already in the state asked for.
C19_VpnStartStop ==
    /\ nmCall.op = "start_psiphon" =>
          /\ "launch" \in nmCall.cmds => ~nmCall.running
          /\ nmCall.ret <=> is_psiphon_running(procs, FALSE)
          /\ nmCall.running => (nmCall.ret /\ nmCall.cmds = {})
    /\ nmCall.op = "stop_psiphon" =>
          /\ "kill" \in nmCall.cmds => nmCall.running
          /\ nmCall.ret <=> ~is_psiphon_running(procs, FALSE)
          /\ ~nmCall.running => (nmCall.ret /\ nmCall.cmds = {})

\* C27: connect_wifi auto-selects only when no target SSID is set; it never
\* replaces an explicitly set target, whatever current_password is.
C27_AutoSelectOnlyWithoutTarget ==
    (nmCall.op = "connect_wifi" /\ ~Falsy(nmCall.ssid)) =>
        /\ "scan" \notin nmCall.cmds
        /\ current_ssid = nmCall.ssid

\* C28: when connect_wifi has issued the connect command it returns True
\* exactly when the status query after the wait reported the machine
\* connected to the target, whatever the connect command did.
C28_ResultFromVerification ==
    (nmCall.op = "connect_wifi" /\ "connect" \in nmCall.cmds) =>
        (nmCall.ret <=> nmCall.verify = "True")

\* the connect command associated the machine, the status query after it
\* failed, and connect_wifi returned False
C28_Witness ==
    /\ nmCall.op = "connect_wifi"
    /\ nmCall.connect = "joins"
    /\ osSsid = current_ssid
    /\ nmCall.assoc = NoSsid
    /\ nmCall.verify = "False"
    /\ ~nmCall.ret

\* C29: when connect_wifi issues the connect command the OS holds a profile
\* for the target, and the command is not issued after create_wifi_profile
\* failed.
C29_ProfileBeforeConnect ==
    (nmCall.op = "connect_wifi" /\ "connect" \in nmCall.cmds) =>
        /\ current_ssid \in osProfiles
        /\ nmCall.created # "False"

\* C37: an error while a sample is taken does not end the monitor.  run()
\* returns only with the flag cleared; every sample that is begun, failed
\* or not, is emitted, once, before the sleep of its period, and the loop
\* goes on to the next; the tunnel is reported active only when a tunnel
\* core process of the table has an ESTABLISHED connection, so that a
\* failed lookup and a process whose connections are denied count as
\* inactive.
C37_SampleErrorNotFatal ==
    /\ [](mpc = "finished" => ~monitoring)
    /\ [](mpc = "sleep" => emitsInPeriod = 1)
    /\ [][(mpc = "check2" /\ mpc' = "compare" /\ sample'.tunnel_active) =>
            \E i \in 1..Len(procs) :
              /\ procs[i].name = "psiphon-tunnel-core.exe"
              /\ procs[i].conn = "ESTABLISHED"]_vars
    /\ (mpc = "check2") ~> (mpc = "sleep")
    /\ (mpc = "sleep") ~> (mpc = "while")

\* the only tunnel core process denies access to its connections: the
\* sample found it running with the tunnel inactive, was emitted, and the
\* loop is still on
C37_Witness ==
    /\ procs = <<[name |-> "psiphon-tunnel-core.exe", conn |-> "AccessDenied"]>>
    /\ mpc = "sleep"
    /\ monitoring
    /\ sample.tunnel_running
    /\ ~sample.tunnel_active
    /\ lastEmit = <<FALSE, TRUE, FALSE, FALSE>>

\* C32: every call of stop() returns, whatever the monitor thread has
\* executed of run() when stop() clears the flag.
C32_StopReturns == (cpc = "wait") ~> (cpc = "idle")

(***************************************************************************)
(* Claims about one invocation of a handler, checked under SpecWatch.      *)
(***************************************************************************)

\* C24: update_status_labels resets the Wi-Fi only after its question was
\* answered Yes, and starts the VPN only after line 154 found it not
\* running and its question was answered Yes; after No it does neither.
C24_CorrectiveOnlyOnYes ==
    /\ "reset" \in watch.fixes => watch.asked.reset = "Yes"
    /\ "vpn" \in watch.fixes => (watch.vpnSeen = "False" /\ watch.asked.vpn = "Yes")
    /\ watch.asked.reset = "No" => ("reset" \notin watch.fixes /\ ~At("U151"))
    /\ watch.asked.vpn = "No" => "vpn" \notin watch.fixes

\* a refresh whose reset question was answered No and whose VPN question
\* was answered Yes has started the VPN and nothing else
C24_Witness ==
    /\ At("return")
    /\ watch.asked.reset = "No"
    /\ watch.asked.vpn = "Yes"
    /\ watch.fixes = {"vpn"}

\* C26: one invocation of run_once_config, its status refresh included,
\* begins at most one Wi-Fi disconnect+reconnect cycle.
C26_OneResetPerRun ==
    (stack # <<>> /\ stack[1].kind = "run_once") => watch.resets <= 1

\* C31: when run_once_config reaches lines 273-280 with use_vpn checked,
\* the step ends with the VPN client running or with the VPN warning
\* shown, also when the client was started or ended after line 249.
C31_VpnRunningOrWarned == watch.vpnStep # "idle"

(***************************************************************************)
(* Claims about the profile store and its handlers, checked under          *)
(* SpecStore, SpecCollect and SpecSwitch.                                  *)
(***************************************************************************)

\* C34: whenever handle_save_profile reports that the profile was saved,
\* the table holds the SSID entered with the password entered; stated for
\* the calls in which the database executed every statement.
C34_SavedMeansStored ==
    (hcall.op = "handle_save_profile" /\ hcall.reported = "saved" /\ hcall.fault = "none") =>
        get_password(store, hcall.batch[1][1]) = hcall.batch[1][2]

C36_TargetOnlyFromRow ==
    (hcall.op = "handle_switch_wifi" /\ hcall.choice # "row") =>
        (~hcall.set /\ ~hcall.connect)

(***************************************************************************)
(* Claims about the timed question dialog, checked under SpecDialog.       *)
(***************************************************************************)

\* C33: a timed question dialog always ends.  Without a click it ends
\* with Yes at the tick whose number is the timeout given, not earlier; a
\* click ends it at once with the button's answer and stops the timer, so
\* that the answer stays.
C33_DialogEnds ==
    /\ [](dlg.how = "timeout" => (dlg.result = "Yes" /\ dlg.ticks = dlg.given))
    /\ [](dlg.how \in {"Yes", "No"} => (dlg.result = dlg.how /\ dlg.ticks < dlg.given))
    /\ [](dlg.state = "closed" => ~dlg.timerActive)
    /\ [](dlg.state = "open" => dlg.timerActive)
    /\ (dlg.state = "open") ~> (dlg.state = "closed")

\* a dialog with the default timeout has closed at its tenth tick with Yes
C33_Witness ==
    /\ dlg.state = "closed"
    /\ dlg.how = "timeout"
    /\ dlg.given = DefaultTimeout
    /\ dlg.ticks = DefaultTimeout
    /\ dlg.result = "Yes"

(***************************************************************************)
(* Claims about the probes of NetworkManager, checked under SpecProbe.     *)
(***************************************************************************)

\* C21: get_wifi_status reports connected only if a target SSID is set;
\* with no target it returns (False, "Wi-Fi not selected") and queries
\* nothing.
C21_StatusNeedsTarget ==
    nmCall.op = "get_wifi_status" =>
        /\ nmCall.ret[1] => ~Falsy(nmCall.ssid)
        /\ Falsy(nmCall.ssid) =>
               (nmCall.ret = <<FALSE, "Wi-Fi not selected">> /\ nmCall.cmds = {})

\* get_wifi_status was called with no target on a machine that is
\* associated with a network
C21_Witness ==
    /\ nmCall.op = "get_wifi_status"
    /\ nmCall.ssid = None
    /\ nmCall.assoc = "Home"
    /\ nmCall.ret = <<FALSE, "Wi-Fi not selected">>

C23_TempFileRemoved ==
    (nmCall.op = "create_wifi_profile" \/ nmCall.created # "none") =>
        current_ssid \notin xmlFiles

\* C25: get_internet_status returns True exactly when the request was
\* answered with status 204.
C25_Only204 ==
    nmCall.op = "get_internet_status" => (nmCall.ret <=> nmCall.outcome = "204")

\* the request was answered with another status and the result is False
C25_Witness ==
    /\ nmCall.op = "get_internet_status"
    /\ nmCall.outcome = "200"
    /\ nmCall.ret = FALSE

\* C30: get_wifi_status, when its query is answered, reports connected
\* exactly when the machine is associated with the target SSID itself.
C30_ExactSsidMatch ==
    (nmCall.op = "get_wifi_status" /\ nmCall.fault = "none") =>
        (nmCall.ret[1] <=> (nmCall.assoc # NoSsid /\ nmCall.assoc = nmCall.ssid))

=============================================================================
